---- MODULE Spec2Model ----
(***************************************************************************)
(* Guest/Stay identity resolution and lifecycle synchronisation engine.    *)
(* The relational store is modelled as one sequence per table; the id of a *)
(* row is its index in the sequence, 0 stands for None.                     *)
(***************************************************************************)
EXTENDS Integers, Sequences, FiniteSets, TLC

VARIABLES
    now,        \* wall clock (datetime.now), in ticks: minutes for the journey
                \* scheduler, seconds for task creation, hours for chat sessions
    guests,     \* table guest
    rooms,      \* table room
    stays,      \* table stay
    journeys,   \* table journey (per-tenant configuration)
    events,     \* table journey_event
    last,       \* what sync_hotel handled last: the reservation, whether it was the
                \* same in_house payload a second time, and the stays it closed
    sw,         \* overlapping sync cycles: position in the handler and its locals
    conversations,  \* table conversation
    messages,   \* table message
    transport,  \* the calls made to the outbound message provider, each with the
                \* run that made it
    jw,         \* runs of process_pending_journeys: position and locals
    tasks,      \* table task
    notified,   \* the tasks notify_new_task was called for
    ret,        \* what the last call of _create_task returned
    inbox,      \* the queue of process_incoming_message jobs
    redis       \* the pending_link keys of redis, each with its expiry

chatvars == <<conversations, messages, transport, jw>>
taskvars == <<tasks, notified, ret>>
linkvars == <<inbox, redis>>
vars == <<now, guests, rooms, stays, journeys, events, last, sw, chatvars, taskvars, linkvars>>

(***************************************************************************)
(* Bounds of the model.                                                     *)
(***************************************************************************)
MaxTime == 2
MaxStays == 2

(***************************************************************************)
(* Enumerations of app/models/models.py and app/services/pms/base.py.       *)
(***************************************************************************)
StayStatus == {"PRE_STAY", "IN_HOUSE", "POST_STAY", "CANCELLED"}
JourneyEventStatus == {"PENDING", "SENT", "CANCELLED"}
ReservationState == {"in_house", "checked_out", "confirmed", "cancelled"}

None == 0
\* no LINE user id (a column that is NULL)
NoUser == ""

\* Helpers over tables.
Ids(table) == 1..Len(table)
\* .first(): the row with the lowest id among the matches, None when there is none
First(S) == IF S = {} THEN None ELSE CHOOSE i \in S : \A j \in S : i <= j

(***************************************************************************)
(* Inputs of the PMS connector.                                             *)
(***************************************************************************)
PmsHotels == {1}
Digits == {"0", "1", "2", "3", "4", "5", "6", "7", "8", "9"}
Phones == {<<"+", "4", "0", "7">>, <<"4", "0", "8">>}
RoomNumbers == {<<"1", "0", "1">>, <<"1", "0", "2">>}
ResIds == {"R1", "R2"}
DatePairs == {<<0, 1>>, <<0, MaxTime + 1>>}
PMSReservation ==
    [reservation_id : ResIds, guest_phone : Phones, room_number : RoomNumbers,
     state : {"in_house", "checked_out"}, dates : DatePairs]
\* the reservations get_reservations delivers: _handle_checkout reads nothing but
\* the reservation id, so one checked_out payload per id is delivered
InHouse == {r \in PMSReservation : r.state = "in_house"}
CheckedOut ==
    {r \in PMSReservation : /\ r.state = "checked_out"
                            /\ r.guest_phone = <<"4", "0", "8">>
                            /\ r.room_number = <<"1", "0", "1">>
                            /\ r.dates = <<0, 1>>}

(***************************************************************************)
(* app/services/pms/sync_engine.py                                          *)
(***************************************************************************)
\* _hash_phone: sha256 over the digits of the phone; the digest is modelled by
\* its preimage (sha256 is taken to be injective).
IsDigit(c) == c \in Digits
hash_phone(phone) == SelectSeq(phone, IsDigit)

\* _get_or_create_guest: the query part
GuestByHash(gs, hotel_id, phone_hash) ==
    First({i \in Ids(gs) : gs[i].hotel_id = hotel_id /\ gs[i].phone_hash = phone_hash})

\* a guest is kept when it is there: the contact data is written for a new
\* guest only
get_or_create_guest_Keep(gs, hotel_id, phone) ==
    IF GuestByHash(gs, hotel_id, hash_phone(phone)) # None
    THEN gs
    ELSE Append(gs, [hotel_id |-> hotel_id, phone_hash |-> hash_phone(phone),
                     phone_plain |-> phone, line_user_id |-> NoUser])

\* _get_or_create_guest followed by _upsert_guest_pii: the guest table afterwards
get_or_create_guest(gs, hotel_id, phone) ==
    LET h == hash_phone(phone)
        g == GuestByHash(gs, hotel_id, h)
    IN  IF g # None
        THEN [gs EXCEPT ![g].phone_plain = phone]
        ELSE Append(gs, [hotel_id |-> hotel_id, phone_hash |-> h, phone_plain |-> phone,
                         line_user_id |-> NoUser])

\* _get_or_create_room: the query part
RoomByNumber(rs, hotel_id, room_number) ==
    First({i \in Ids(rs) : rs[i].hotel_id = hotel_id /\ rs[i].room_number = room_number})

get_or_create_room(rs, hotel_id, room_number) ==
    IF RoomByNumber(rs, hotel_id, room_number) # None
    THEN rs
    ELSE Append(rs, [hotel_id |-> hotel_id, room_number |-> room_number])

\* a lookup that, like the one of _handle_checkout, sees IN_HOUSE stays only
ExistingStay_InHouseOnly(ss, hotel_id, guest_id, reservation_id) ==
    First({i \in Ids(ss) : /\ ss[i].hotel_id = hotel_id
                           /\ ss[i].guest_id = guest_id
                           /\ ss[i].pms_reservation_id = reservation_id
                           /\ ss[i].status = "IN_HOUSE"})

\* _handle_checkin step 5: the stay of this reservation, looked up by
\* (hotel_id, guest_id, pms_reservation_id)
ExistingStay(ss, hotel_id, guest_id, reservation_id) ==
    First({i \in Ids(ss) : /\ ss[i].hotel_id = hotel_id
                           /\ ss[i].guest_id = guest_id
                           /\ ss[i].pms_reservation_id = reservation_id})

\* _close_previous_stays: the guest's IN_HOUSE stays, and the IN_HOUSE stays of
\* other guests in the room
PreviousStays(ss, guest_id) ==
    {i \in Ids(ss) : ss[i].guest_id = guest_id /\ ss[i].status = "IN_HOUSE"}
\* a room query with the guest filter inverted
RoomStays_SameGuest(ss, guest_id, room_id) ==
    IF room_id = None THEN {}
    ELSE {i \in Ids(ss) : /\ ss[i].room_id = room_id
                          /\ ss[i].status = "IN_HOUSE"
                          /\ ss[i].guest_id = guest_id}
RoomStays(ss, guest_id, room_id) ==
    IF room_id = None THEN {}
    ELSE {i \in Ids(ss) : /\ ss[i].room_id = room_id
                          /\ ss[i].status = "IN_HOUSE"
                          /\ ss[i].guest_id # guest_id}
close_previous_stays(ss, guest_id, room_id) ==
    [i \in Ids(ss) |->
        IF i \in PreviousStays(ss, guest_id) \cup RoomStays(ss, guest_id, room_id)
        THEN [ss[i] EXCEPT !.status = "POST_STAY"]
        ELSE ss[i]]

\* the active journey of a tenant with the given name (.first())
ActiveJourney(hotel_id, name) ==
    First({j \in Ids(journeys) : /\ journeys[j].hotel_id = hotel_id
                                 /\ journeys[j].name = name
                                 /\ journeys[j].is_active})

\* existing_event: a PENDING or SENT event of (stay, journey)
ExistingEvent(es, stay_id, journey_id) ==
    First({e \in Ids(es) : /\ es[e].stay_id = stay_id
                           /\ es[e].journey_id = journey_id
                           /\ es[e].status \in {"PENDING", "SENT"}})

NewEvent(hotel_id, journey_id, guest_id, stay_id) ==
    [hotel_id |-> hotel_id, journey_id |-> journey_id, guest_id |-> guest_id,
     stay_id |-> stay_id, run_at |-> now + journeys[journey_id].delay_minutes,
     status |-> "PENDING"]

NewStay(hotel_id, guest_id, room_id, r) ==
    [hotel_id |-> hotel_id, guest_id |-> guest_id, room_id |-> room_id,
     checkin_date |-> r.dates[1], checkout_date |-> r.dates[2], status |-> "IN_HOUSE",
     pms_reservation_id |-> r.reservation_id, whatsapp_opt_in |-> TRUE]

NoRes == [reservation_id |-> "", guest_phone |-> <<>>, room_number |-> <<>>,
          state |-> "", dates |-> <<0, 0>>]
Idle == [pc |-> "idle", hotel_id |-> None, r |-> NoRes, guest |-> None, room |-> None,
         stay |-> None]

NoLast == [hotel_id |-> None, r |-> NoRes, again |-> FALSE, closed |-> {}]
\* a step of another job: the reservation handled last stays the same
Later(l) == [l EXCEPT !.again = FALSE, !.closed = {}]

SyncWorkers == {1, 2}

\* _handle_checkout: the IN_HOUSE stay of the reservation
ActiveStay(ss, hotel_id, reservation_id) ==
    First({i \in Ids(ss) : /\ ss[i].hotel_id = hotel_id
                           /\ ss[i].pms_reservation_id = reservation_id
                           /\ ss[i].status = "IN_HOUSE"})

(***************************************************************************)
(* The handlers of sync_engine.py statement by statement, for sync cycles   *)
(* that overlap: every step is one query or one commit.                     *)
(***************************************************************************)
\* stays that handlers in flight are still going to insert
Creating == Cardinality({w \in DOMAIN sw : sw[w].pc \in {"ci_close", "ci_create"}})

\* _handle_checkin, steps 1 to 5: guest, contact details and room are
\* got-or-created and the stay of the reservation is looked up
CheckinStart(w, hotel_id, r) ==
    /\ sw[w].pc = "idle"
    /\ r.state = "in_house"
    /\ LET gs == get_or_create_guest(guests, hotel_id, r.guest_phone)
           rs == get_or_create_room(rooms, hotel_id, r.room_number)
           g == GuestByHash(gs, hotel_id, hash_phone(r.guest_phone))
           rm == RoomByNumber(rs, hotel_id, r.room_number)
           existing_stay == ExistingStay(stays, hotel_id, g, r.reservation_id)
       IN  /\ existing_stay # None \/ Len(stays) + Creating < MaxStays
           /\ guests' = gs
           /\ rooms' = rs
           /\ sw' = [sw EXCEPT ![w] =
                  [pc |-> IF existing_stay # None THEN "ci_update" ELSE "ci_close",
                   hotel_id |-> hotel_id, r |-> r, guest |-> g, room |-> rm,
                   stay |-> existing_stay]]
    /\ UNCHANGED <<now, stays, journeys, events, last, chatvars, taskvars, linkvars>>

\* _handle_checkin, existing_stay branch: status forced to IN_HOUSE, room and
\* dates taken from the reservation
CheckinUpdate(w) ==
    /\ sw[w].pc = "ci_update"
    /\ stays' = [stays EXCEPT ![sw[w].stay] =
                    [@ EXCEPT !.status = "IN_HOUSE", !.room_id = sw[w].room,
                              !.checkin_date = sw[w].r.dates[1],
                              !.checkout_date = sw[w].r.dates[2]]]
    /\ sw' = [sw EXCEPT ![w] = Idle]
    /\ UNCHANGED <<now, guests, rooms, journeys, events, last, chatvars, taskvars, linkvars>>

\* _handle_checkin step 6
CheckinClose(w) ==
    /\ sw[w].pc = "ci_close"
    /\ stays' = close_previous_stays(stays, sw[w].guest, sw[w].room)
    /\ sw' = [sw EXCEPT ![w].pc = "ci_create"]
    /\ UNCHANGED <<now, guests, rooms, journeys, events, last, chatvars, taskvars, linkvars>>

\* _handle_checkin step 7
CheckinCreate(w) ==
    /\ sw[w].pc = "ci_create"
    /\ stays' = Append(stays, NewStay(sw[w].hotel_id, sw[w].guest, sw[w].room, sw[w].r))
    /\ sw' = [sw EXCEPT ![w].pc = "ci_journey", ![w].stay = Len(stays) + 1]
    /\ UNCHANGED <<now, guests, rooms, journeys, events, last, chatvars, taskvars, linkvars>>

\* _handle_checkin step 8: the journey and existing_event queries
CheckinJourney(w) ==
    /\ sw[w].pc = "ci_journey"
    /\ LET journey == ActiveJourney(sw[w].hotel_id, "AFTER_CHECKIN_WELCOME")
       IN  sw' = [sw EXCEPT ![w] =
                    IF journey # None /\ ExistingEvent(events, sw[w].stay, journey) = None
                    THEN [@ EXCEPT !.pc = "ci_event"]
                    ELSE Idle]
    /\ UNCHANGED <<now, guests, rooms, stays, journeys, events, last, chatvars, taskvars, linkvars>>

\* _handle_checkin step 8: the welcome event is inserted
CheckinEvent(w) ==
    /\ sw[w].pc = "ci_event"
    /\ events' = Append(events,
                     NewEvent(sw[w].hotel_id,
                              ActiveJourney(sw[w].hotel_id, "AFTER_CHECKIN_WELCOME"),
                              sw[w].guest, sw[w].stay))
    /\ sw' = [sw EXCEPT ![w] = Idle]
    /\ UNCHANGED <<now, guests, rooms, stays, journeys, last, chatvars, taskvars, linkvars>>

\* _handle_checkout: the query for the active stay
CheckoutStart(w, hotel_id, r) ==
    /\ sw[w].pc = "idle"
    /\ r.state = "checked_out"
    /\ LET stay == ActiveStay(stays, hotel_id, r.reservation_id)
       IN  /\ stay # None
           /\ sw' = [sw EXCEPT ![w] =
                    [pc |-> "co_close", hotel_id |-> hotel_id, r |-> r,
                     guest |-> stays[stay].guest_id, room |-> None, stay |-> stay]]
    /\ UNCHANGED <<now, guests, rooms, stays, journeys, events, last, chatvars, taskvars, linkvars>>

\* _handle_checkout: the stay is set to POST_STAY and committed
CheckoutClose(w) ==
    /\ sw[w].pc = "co_close"
    /\ stays' = [stays EXCEPT ![sw[w].stay].status = "POST_STAY"]
    /\ sw' = [sw EXCEPT ![w].pc = "co_journey"]
    /\ UNCHANGED <<now, guests, rooms, journeys, events, last, chatvars, taskvars, linkvars>>

\* _handle_checkout: the journey and existing_event queries
CheckoutJourney(w) ==
    /\ sw[w].pc = "co_journey"
    /\ LET journey == ActiveJourney(sw[w].hotel_id, "AFTER_CHECKOUT_FEEDBACK")
       IN  sw' = [sw EXCEPT ![w] =
                    IF journey # None /\ ExistingEvent(events, sw[w].stay, journey) = None
                    THEN [@ EXCEPT !.pc = "co_event"]
                    ELSE Idle]
    /\ UNCHANGED <<now, guests, rooms, stays, journeys, events, last, chatvars, taskvars, linkvars>>

\* _handle_checkout: the feedback event is inserted
CheckoutEvent(w) ==
    /\ sw[w].pc = "co_event"
    /\ events' = Append(events,
                     NewEvent(sw[w].hotel_id,
                              ActiveJourney(sw[w].hotel_id, "AFTER_CHECKOUT_FEEDBACK"),
                              sw[w].guest, sw[w].stay))
    /\ sw' = [sw EXCEPT ![w] = Idle]
    /\ UNCHANGED <<now, guests, rooms, stays, journeys, last, chatvars, taskvars, linkvars>>

(***************************************************************************)
(* app/workers/jobs_stay_cleanup.py                                         *)
(***************************************************************************)
\* a sweep that looks at the stays of the first tenant only
ExpiredStays_OneHotel(ss, t) ==
    {i \in Ids(ss) : ss[i].hotel_id = 1 /\ ss[i].status = "IN_HOUSE" /\ ss[i].checkout_date < t}

\* the query of the sweep: IN_HOUSE with checkout_date < now, of every hotel
ExpiredStays(ss, t) == {i \in Ids(ss) : ss[i].status = "IN_HOUSE" /\ ss[i].checkout_date < t}

run_stay_cleanup_for_all_hotels ==
    /\ stays' = [i \in Ids(stays) |->
                    IF i \in ExpiredStays(stays, now)
                    THEN [stays[i] EXCEPT !.status = "POST_STAY"]
                    ELSE stays[i]]
    /\ last' = Later(last)
    /\ UNCHANGED <<now, guests, rooms, journeys, events, sw, chatvars, taskvars, linkvars>>

Tick ==
    /\ now < MaxTime
    /\ now' = now + 1
    /\ last' = Later(last)
    /\ UNCHANGED <<guests, rooms, stays, journeys, events, sw, chatvars, taskvars, linkvars>>

(***************************************************************************)
(* sync_hotel on one worker: each reservation is handled to completion.     *)
(***************************************************************************)
\* _handle_checkin as a whole: the tables after it, from the tables before it
handle_checkin(gs0, rs0, ss0, es0, hotel_id, r) ==
    LET gs == get_or_create_guest(gs0, hotel_id, r.guest_phone)
        rs == get_or_create_room(rs0, hotel_id, r.room_number)
        guest == GuestByHash(gs, hotel_id, hash_phone(r.guest_phone))
        room_id == RoomByNumber(rs, hotel_id, r.room_number)
        existing_stay == ExistingStay(ss0, hotel_id, guest, r.reservation_id)
        closed == close_previous_stays(ss0, guest, room_id)
        stay == Len(ss0) + 1
        journey == ActiveJourney(hotel_id, "AFTER_CHECKIN_WELCOME")
    IN  IF existing_stay # None
        THEN [guests |-> gs, rooms |-> rs, events |-> es0,
              stays |-> [ss0 EXCEPT ![existing_stay] =
                            [@ EXCEPT !.status = "IN_HOUSE", !.room_id = room_id,
                                      !.checkin_date = r.dates[1],
                                      !.checkout_date = r.dates[2]]]]
        ELSE [guests |-> gs, rooms |-> rs,
              stays |-> Append(closed, NewStay(hotel_id, guest, room_id, r)),
              events |-> IF journey # None /\ ExistingEvent(es0, stay, journey) = None
                         THEN Append(es0, NewEvent(hotel_id, journey, guest, stay))
                         ELSE es0]

\* _handle_checkout as a whole
handle_checkout(ss0, es0, hotel_id, r) ==
    LET stay == ActiveStay(ss0, hotel_id, r.reservation_id)
        journey == ActiveJourney(hotel_id, "AFTER_CHECKOUT_FEEDBACK")
    IN  IF stay = None
        THEN [stays |-> ss0, events |-> es0]
        ELSE [stays |-> [ss0 EXCEPT ![stay].status = "POST_STAY"],
              events |-> IF journey # None /\ ExistingEvent(es0, stay, journey) = None
                         THEN Append(es0, NewEvent(hotel_id, journey, ss0[stay].guest_id, stay))
                         ELSE es0]

\* sync_hotel, one iteration of the loop over the fetched reservations
SyncCheckin(hotel_id, r) ==
    /\ r.state = "in_house"
    /\ \E db \in {handle_checkin(guests, rooms, stays, events, hotel_id, r)} :
           /\ Len(db.stays) <= MaxStays
           /\ guests' = db.guests
           /\ rooms' = db.rooms
           /\ stays' = db.stays
           /\ events' = db.events
    /\ last' = [hotel_id |-> hotel_id, r |-> r,
                again |-> last.hotel_id = hotel_id /\ last.r = r,
                closed |-> {i \in Ids(stays) : stays[i].status # stays'[i].status
                                               /\ stays'[i].status = "POST_STAY"}]
    /\ UNCHANGED <<now, journeys, sw, chatvars, taskvars, linkvars>>

SyncCheckout(hotel_id, r) ==
    /\ r.state = "checked_out"
    /\ \E db \in {handle_checkout(stays, events, hotel_id, r)} :
           /\ stays' = db.stays
           /\ events' = db.events
    /\ last' = NoLast
    /\ UNCHANGED <<now, guests, rooms, journeys, sw, chatvars, taskvars, linkvars>>

JourneyConfig ==
    <<[hotel_id |-> 1, name |-> "AFTER_CHECKIN_WELCOME", is_active |-> TRUE,
       delay_minutes |-> 1, template_key |-> "welcome_after_checkin"],
      [hotel_id |-> 1, name |-> "AFTER_CHECKOUT_FEEDBACK", is_active |-> TRUE,
       delay_minutes |-> 1, template_key |-> "feedback_after_checkout"]>>

InitTables ==
    /\ now = 1
    /\ guests = <<>>
    /\ rooms = <<>>
    /\ stays = <<>>
    /\ journeys = JourneyConfig
    /\ events = <<>>
    /\ last = NoLast
    /\ conversations = <<>>
    /\ messages = <<>>
    /\ transport = {}
    /\ jw = <<>>
    /\ tasks = <<>>
    /\ notified = <<>>
    /\ ret = None
    /\ inbox = <<>>
    /\ redis = <<>>

Init ==
    /\ InitTables
    /\ sw = <<>>

Next ==
    \/ \E h \in PmsHotels, r \in InHouse : SyncCheckin(h, r)
    \/ \E h \in PmsHotels, r \in CheckedOut : SyncCheckout(h, r)
    \/ run_stay_cleanup_for_all_hotels
    \/ Tick

Spec == Init /\ [][Next]_vars

(***************************************************************************)
(* Two sync cycles of one tenant overlapping on two workers.                *)
(***************************************************************************)
\* both cycles fetch the same reservations of the tenant
FetchedInHouse ==
    {r \in InHouse : /\ r.reservation_id = "R1"
                     /\ r.guest_phone = <<"4", "0", "8">>
                     /\ r.room_number = <<"1", "0", "1">>
                     /\ r.dates = <<0, 1>>}
FetchedCheckedOut == {r \in CheckedOut : r.reservation_id = "R1"}

InitConc ==
    /\ InitTables
    /\ sw = [w \in SyncWorkers |-> Idle]

SyncStep(w) ==
    \/ \E h \in PmsHotels, r \in FetchedInHouse : CheckinStart(w, h, r)
    \/ CheckinUpdate(w)
    \/ CheckinClose(w)
    \/ CheckinCreate(w)
    \/ CheckinJourney(w)
    \/ CheckinEvent(w)
    \/ \E h \in PmsHotels, r \in FetchedCheckedOut : CheckoutStart(w, h, r)
    \/ CheckoutClose(w)
    \/ CheckoutJourney(w)
    \/ CheckoutEvent(w)

NextConc ==
    \/ \E w \in SyncWorkers : SyncStep(w)
    \/ run_stay_cleanup_for_all_hotels
    \/ Tick

SpecSyncConc == InitConc /\ [][NextConc]_vars

(***************************************************************************)
(* app/services/identity_resolver.py                                        *)
(***************************************************************************)
\* determine_state: with both dates present the state is derived from the dates
\* and the clock; the stored status is read only when a date is missing
determine_state(stay, t) ==
    IF stay.checkin_date # None /\ stay.checkout_date # None
    THEN IF t < stay.checkin_date THEN "PRE_STAY"
         ELSE IF stay.checkin_date <= t /\ t < stay.checkout_date THEN "IN_HOUSE"
         ELSE "POST_STAY"
    ELSE stay.status

(***************************************************************************)
(* app/workers/jobs_journey.py: process_pending_journeys, run by the        *)
(* journey scheduler thread of every worker process. Each step is one query *)
(* with the commits that follow it up to the next read of shared rows.      *)
(***************************************************************************)
STALE_MINUTES == 30
RECENT_MINUTES == 5

JourneyWorkers == {1, 2}
NoRun == [pc |-> "idle", now |-> None, queue |-> <<>>, pos |-> 0, conversation |-> None,
          text |-> <<>>]

\* a stale cutoff that leaves out the event exactly 30 minutes old
StaleEvents_Strict(es, run_now) ==
    {e \in Ids(es) : es[e].status = "PENDING" /\ es[e].run_at < run_now - STALE_MINUTES}
\* pass 1: the PENDING events with run_at <= now - 30 minutes
StaleEvents(es, run_now) ==
    {e \in Ids(es) : es[e].status = "PENDING" /\ es[e].run_at <= run_now - STALE_MINUTES}

\* pass 2: the PENDING events with run_at <= now
DueEvents(es, run_now) ==
    {e \in Ids(es) : es[e].status = "PENDING" /\ es[e].run_at <= run_now}

\* the rows of a query result, by id
RECURSIVE AsList(_)
AsList(S) == IF S = {} THEN <<>> ELSE <<First(S)>> \o AsList(S \ {First(S)})

\* the OPEN conversation of a guest on a channel, the newest one first
OpenConversation(cs, hotel_id, guest_id, channel) ==
    LET S == {c \in Ids(cs) : /\ cs[c].hotel_id = hotel_id
                              /\ cs[c].guest_id = guest_id
                              /\ cs[c].channel = channel
                              /\ cs[c].status = "OPEN"}
    IN  IF S = {} THEN None ELSE CHOOSE c \in S : \A d \in S : d <= c

\* the conversation table after the conversation of the event was found, created,
\* or pointed at the stay of the event
conversation_for(cs, event) ==
    LET c == OpenConversation(cs, event.hotel_id, event.guest_id, "whatsapp")
        stay == stays[event.stay_id]
    IN  IF c = None
        THEN Append(cs, [hotel_id |-> event.hotel_id, guest_id |-> event.guest_id,
                         stay_id |-> event.stay_id, room_id |-> None,
                         channel |-> "whatsapp", status |-> "OPEN",
                         last_qr_scan_at |-> None])
        ELSE IF cs[c].stay_id # event.stay_id
        THEN [cs EXCEPT ![c].stay_id = event.stay_id,
                        ![c].room_id = IF stay.room_id # None THEN stay.room_id ELSE @]
        ELSE cs

room_number_of(stay) == IF stay.room_id # None THEN rooms[stay.room_id].room_number ELSE <<>>

\* the text that is sent: the template text of the journey, or for
\* welcome_after_checkin the welcome message of the hotel for the room
journey_text(event) ==
    IF journeys[event.journey_id].template_key = "welcome_after_checkin"
    THEN <<"welcome", event.hotel_id, room_number_of(stays[event.stay_id])>>
    ELSE <<"template", journeys[event.journey_id].template_key>>

\* the text that is stored in the message table: for a whatsapp welcome the line
\* "Welcome message sent (hotel, room N)", else the text that is sent
db_text(event, c, text) ==
    IF /\ journeys[event.journey_id].template_key = "welcome_after_checkin"
       /\ conversations[c].channel = "whatsapp"
    THEN <<"Welcome message sent", event.hotel_id, room_number_of(stays[event.stay_id])>>
    ELSE text

\* the idempotency query: an outgoing message of the conversation with the text
\* to send, created no more than 5 minutes before the run started
ExistingMessage(ms, c, text, run_now) ==
    First({m \in Ids(ms) : /\ ms[m].conversation_id = c
                           /\ ms[m].direction = "OUTGOING"
                           /\ ms[m].text = text
                           /\ ms[m].created_at >= run_now - RECENT_MINUTES})

\* an eligibility test on the stored status of the stay
Eligible_Stored(stay, t) == stay.status = "IN_HOUSE"
\* the stay of a due event is eligible when determine_state says IN_HOUSE
Eligible(stay, t) == determine_state(stay, t) = "IN_HOUSE"

\* the run goes on with the next event of its list
NextEvent(run) ==
    IF run.pos < Len(run.queue)
    THEN [run EXCEPT !.pc = "check", !.pos = @ + 1, !.conversation = None, !.text = <<>>]
    ELSE NoRun
\* the event the run is at
Current(run) == run.queue[run.pos]

\* a run that starts with the dispatch pass and leaves the stale events alone
JourneyStale_Skip(w) ==
    /\ jw[w].pc = "idle"
    /\ jw' = [jw EXCEPT ![w] = [NoRun EXCEPT !.pc = "dispatch", !.now = now]]
    /\ UNCHANGED <<now, guests, rooms, stays, journeys, events, last, sw, conversations,
                   messages, transport, taskvars, linkvars>>

\* the run starts, takes the clock and cancels the stale events (pass 1)
JourneyStale(w) ==
    /\ jw[w].pc = "idle"
    /\ events' = [e \in Ids(events) |->
                    IF e \in StaleEvents(events, now)
                    THEN [events[e] EXCEPT !.status = "CANCELLED"]
                    ELSE events[e]]
    /\ jw' = [jw EXCEPT ![w] = [NoRun EXCEPT !.pc = "dispatch", !.now = now]]
    /\ UNCHANGED <<now, guests, rooms, stays, journeys, last, sw, conversations, messages,
                   transport, taskvars, linkvars>>

\* pass 2: the query for the due events
JourneyQuery(w) ==
    /\ jw[w].pc = "dispatch"
    /\ LET due == AsList(DueEvents(events, jw[w].now))
       IN  jw' = [jw EXCEPT ![w] = IF due = <<>> THEN NoRun
                                   ELSE [@ EXCEPT !.pc = "check", !.queue = due, !.pos = 1]]
    /\ UNCHANGED <<now, guests, rooms, stays, journeys, events, last, sw, conversations,
                   messages, transport, taskvars, linkvars>>

\* the loop body up to the idempotency check: eligibility of the stay, the
\* recipient, the conversation, the text, the recent identical message
JourneyCheck(w) ==
    /\ jw[w].pc = "check"
    /\ LET e == Current(jw[w])
           event == events[e]
           cancelled == [events EXCEPT ![e].status = "CANCELLED"]
           cs == conversation_for(conversations, event)
           c == OpenConversation(cs, event.hotel_id, event.guest_id, "whatsapp")
           text == journey_text(event)
       IN  IF event.stay_id = None
           THEN /\ events' = cancelled
                /\ jw' = [jw EXCEPT ![w] = NextEvent(@)]
                /\ UNCHANGED conversations
           ELSE IF ~Eligible(stays[event.stay_id], now)
           THEN \* kept PENDING, to be tried again by a later run
                /\ jw' = [jw EXCEPT ![w] = NextEvent(@)]
                /\ UNCHANGED <<events, conversations>>
           ELSE IF ~stays[event.stay_id].whatsapp_opt_in
           THEN /\ events' = cancelled
                /\ jw' = [jw EXCEPT ![w] = NextEvent(@)]
                /\ UNCHANGED conversations
           ELSE IF guests[event.guest_id].phone_plain = <<>>
           THEN /\ events' = cancelled
                /\ jw' = [jw EXCEPT ![w] = NextEvent(@)]
                /\ UNCHANGED conversations
           ELSE /\ conversations' = cs
                /\ IF ExistingMessage(messages, c, text, jw[w].now) # None
                   THEN /\ events' = [events EXCEPT ![e].status = "SENT"]
                        /\ jw' = [jw EXCEPT ![w] = NextEvent(@)]
                   ELSE /\ jw' = [jw EXCEPT ![w].pc = "save", ![w].conversation = c,
                                            ![w].text = text]
                        /\ UNCHANGED events
    /\ UNCHANGED <<now, guests, rooms, stays, journeys, last, sw, messages, transport, taskvars, linkvars>>

\* the outgoing message is stored and committed before it is sent
JourneySave(w) ==
    /\ jw[w].pc = "save"
    /\ LET event == events[Current(jw[w])]
       IN  messages' = Append(messages,
                          [conversation_id |-> jw[w].conversation, sender_type |-> "BOT",
                           direction |-> "OUTGOING",
                           text |-> db_text(event, jw[w].conversation, jw[w].text),
                           created_at |-> now, raw_payload_json |-> None])
    /\ jw' = [jw EXCEPT ![w].pc = "send"]
    /\ UNCHANGED <<now, guests, rooms, stays, journeys, events, last, sw, conversations,
                   transport, taskvars, linkvars>>

\* the provider is called; the event becomes SENT when the call succeeds and
\* CANCELLED when it fails or raises
JourneySend(w, success) ==
    /\ jw[w].pc = "send"
    /\ LET e == Current(jw[w])
       IN  /\ transport' = transport \cup
                              {[event |-> e, worker |-> w, run_now |-> jw[w].now,
                                wa_id |-> guests[events[e].guest_id].phone_plain,
                                text |-> jw[w].text]}
           /\ events' = [events EXCEPT ![e].status = IF success THEN "SENT" ELSE "CANCELLED"]
    /\ jw' = [jw EXCEPT ![w] = NextEvent(@)]
    /\ UNCHANGED <<now, guests, rooms, stays, journeys, last, sw, conversations, messages, taskvars, linkvars>>

\* stay.whatsapp_opt_in is set to False for a stay ("can be changed later")
OptOut(stay) ==
    /\ stay \in Ids(stays)
    /\ stays[stay].whatsapp_opt_in
    /\ stays' = [stays EXCEPT ![stay].whatsapp_opt_in = FALSE]
    /\ UNCHANGED <<now, guests, rooms, journeys, events, last, sw, chatvars, taskvars, linkvars>>

\* the instants at which the clock is read: around the run_at of an event
\* scheduled at the start, within the 5 minute window, around the 30 minute
\* ceiling
Instants ==
    {1, 2, 2 + RECENT_MINUTES, 1 + STALE_MINUTES, 2 + STALE_MINUTES}

Advance ==
    /\ \E t \in Instants : /\ t > now
                           /\ \A u \in Instants : u > now => t <= u
                           /\ now' = t
    /\ UNCHANGED <<guests, rooms, stays, journeys, events, last, sw, chatvars, taskvars, linkvars>>

\* the reservations whose check-in scheduled the events: one that is in house
\* throughout, one whose checkout date is the run_at of its welcome event, one
\* whose check-in date lies after it
Arrivals ==
    {[reservation_id |-> "R1", guest_phone |-> <<"4", "0", "8">>, room_number |-> <<"1", "0", "1">>,
      state |-> "in_house", dates |-> d] :
        d \in {<<0, 3 + STALE_MINUTES>>, <<0, 2>>, <<1 + RECENT_MINUTES, 3 + STALE_MINUTES>>}}

\* the tables after sync_hotel handled one arrival
InitJourney ==
    /\ now = 1
    /\ journeys = JourneyConfig
    /\ \E r \in Arrivals :
        \E db \in {handle_checkin(<<>>, <<>>, <<>>, <<>>, 1, r)} :
            /\ guests = db.guests
            /\ rooms = db.rooms
            /\ stays = db.stays
            /\ events = db.events
    /\ last = NoLast
    /\ sw = <<>>
    /\ conversations = <<>>
    /\ messages = <<>>
    /\ transport = {}
    /\ jw = [w \in JourneyWorkers |-> NoRun]
    /\ tasks = <<>>
    /\ notified = <<>>
    /\ ret = None
    /\ inbox = <<>>
    /\ redis = <<>>

NextJourney ==
    \/ \E w \in JourneyWorkers : JourneyStale(w)
    \/ \E w \in JourneyWorkers : JourneyQuery(w)
    \/ \E w \in JourneyWorkers : JourneyCheck(w)
    \/ \E w \in JourneyWorkers : JourneySave(w)
    \/ \E w \in JourneyWorkers, success \in BOOLEAN : JourneySend(w, success)
    \/ \E h \in PmsHotels, r \in FetchedCheckedOut : SyncCheckout(h, r)
    \/ \E i \in 1..MaxStays : OptOut(i)
    \/ Advance

SpecJourney == InitJourney /\ [][NextJourney]_vars

\* one scheduler run at a time with the PMS sync going on next to it: the
\* arrivals are reported in house again by later cycles
NextWelcome ==
    \/ \E w \in {1} : JourneyStale(w)
    \/ \E w \in {1} : JourneyQuery(w)
    \/ \E w \in {1} : JourneyCheck(w)
    \/ \E w \in {1} : JourneySave(w)
    \/ \E w \in {1}, success \in BOOLEAN : JourneySend(w, success)
    \/ \E h \in PmsHotels, r \in Arrivals : SyncCheckin(h, r)
    \/ Advance

SpecWelcome == InitJourney /\ [][NextWelcome]_vars

(***************************************************************************)
(* The journey scheduler of a worker as run_worker.py runs it: a thread that *)
(* calls process_pending_journeys once a minute for ever, so every step of a *)
(* run is taken in the end and a new run starts after each; the clock moves  *)
(* on. Check-outs are reported while the clock of the model can still reach  *)
(* the staleness of the events they schedule.                                *)
(***************************************************************************)
SchedulerStep(w) ==
    \/ JourneyStale(w)
    \/ JourneyQuery(w)
    \/ JourneyCheck(w)
    \/ JourneySave(w)
    \/ \E success \in BOOLEAN : JourneySend(w, success)

NextSchedule ==
    \/ \E w \in {1} : SchedulerStep(w)
    \/ \E h \in PmsHotels, r \in FetchedCheckedOut : now < 2 /\ SyncCheckout(h, r)
    \/ \E i \in 1..MaxStays : OptOut(i)
    \/ Advance

SpecSchedule ==
    InitJourney /\ [][NextSchedule]_vars /\ WF_vars(SchedulerStep(1)) /\ WF_vars(Advance)

(***************************************************************************)
(* process_pending_journeys on one worker that may die at any point of a    *)
(* run and is started again: the provider call and the commit that follows  *)
(* it are two steps. sw holds the events the worker's runs sent with        *)
(* success since it last died, and how often it died.                       *)
(***************************************************************************)
MaxCrashes == 2

\* a status after the send that keeps a sent event PENDING
StatusAfterSend_Late(success) == IF success THEN "PENDING" ELSE "CANCELLED"

\* the status committed after the provider call: SENT on success, CANCELLED on
\* failure or exception
StatusAfterSend(success) == IF success THEN "SENT" ELSE "CANCELLED"

\* the provider is called for the event the run is at
JourneyCall(w, success) ==
    /\ jw[w].pc = "send"
    /\ LET e == Current(jw[w])
       IN  /\ transport' = transport \cup
                              {[event |-> e, worker |-> w, run_now |-> jw[w].now,
                                wa_id |-> guests[events[e].guest_id].phone_plain,
                                text |-> jw[w].text]}
           /\ sw' = IF success THEN [sw EXCEPT !.sent = @ \cup {e}] ELSE sw
    /\ jw' = [jw EXCEPT ![w].pc = IF success THEN "sent" ELSE "failed"]
    /\ UNCHANGED <<now, guests, rooms, stays, journeys, events, last, conversations, messages,
                   taskvars, linkvars>>

\* the status of the event is committed and the loop goes on
JourneyCommit(w) ==
    /\ jw[w].pc \in {"sent", "failed"}
    /\ events' = [events EXCEPT ![Current(jw[w])].status = StatusAfterSend(jw[w].pc = "sent")]
    /\ jw' = [jw EXCEPT ![w] = NextEvent(@)]
    /\ UNCHANGED <<now, guests, rooms, stays, journeys, last, sw, conversations, messages,
                   transport, taskvars, linkvars>>

\* the worker dies in a run; what was committed stays, the run is gone
Crash(w) ==
    /\ jw[w].pc # "idle"
    /\ sw.crashes < MaxCrashes
    /\ jw' = [jw EXCEPT ![w] = NoRun]
    /\ sw' = [sent |-> {}, crashes |-> sw.crashes + 1]
    /\ UNCHANGED <<now, guests, rooms, stays, journeys, events, last, conversations, messages,
                   transport, taskvars, linkvars>>

InitCrash ==
    /\ now = 1
    /\ journeys = JourneyConfig
    /\ \E r \in Arrivals :
        \E db \in {handle_checkin(<<>>, <<>>, <<>>, <<>>, 1, r)} :
            /\ guests = db.guests
            /\ rooms = db.rooms
            /\ stays = db.stays
            /\ events = db.events
    /\ last = NoLast
    /\ sw = [sent |-> {}, crashes |-> 0]
    /\ conversations = <<>>
    /\ messages = <<>>
    /\ transport = {}
    /\ jw = [w \in JourneyWorkers |-> NoRun]
    /\ tasks = <<>>
    /\ notified = <<>>
    /\ ret = None
    /\ inbox = <<>>
    /\ redis = <<>>

NextCrash ==
    \/ \E h \in PmsHotels, r \in FetchedCheckedOut : SyncCheckout(h, r)
    \/ \E w \in {1} : JourneyStale(w)
    \/ \E w \in {1} : JourneyQuery(w)
    \/ \E w \in {1} : JourneyCheck(w)
    \/ \E w \in {1} : JourneySave(w)
    \/ \E w \in {1}, success \in BOOLEAN : JourneyCall(w, success)
    \/ \E w \in {1} : JourneyCommit(w)
    \/ \E w \in {1} : Crash(w)
    \/ Advance

SpecCrash == InitCrash /\ [][NextCrash]_vars

(***************************************************************************)
(* app/agent/brain.py: _create_task from the deduplication check on, for a  *)
(* request that passed the service checks and has its task type and its     *)
(* final staff summary. The clock counts seconds here.                       *)
(***************************************************************************)
DEDUP_SECONDS == 60
MaxTasks == 3

TaskHotels == {1, 2}
TaskTypes == {"HOUSEKEEPING", "MAINTENANCE"}
Summaries == {"Room 101: extra pillow", "Room 101: lamp broken"}

\* a window that leaves out the task created exactly 60 seconds ago
RecentTask_Strict(ts, hotel_id, task_type, summary, t) ==
    First({i \in Ids(ts) : /\ ts[i].hotel_id = hotel_id
                           /\ ts[i].type = task_type
                           /\ ts[i].created_at > t - DEDUP_SECONDS
                           /\ ts[i].staff_summary = summary})
\* existing_task: a task of the tenant with the type and the summary, created
\* at or after now - 60 seconds
RecentTask(ts, hotel_id, task_type, summary, t) ==
    First({i \in Ids(ts) : /\ ts[i].hotel_id = hotel_id
                           /\ ts[i].type = task_type
                           /\ ts[i].created_at >= t - DEDUP_SECONDS
                           /\ ts[i].staff_summary = summary})

create_task(hotel_id, task_type, summary) ==
    /\ LET existing_task == RecentTask(tasks, hotel_id, task_type, summary, now)
       IN  IF existing_task # None
           THEN /\ ret' = existing_task
                /\ UNCHANGED <<tasks, notified>>
           ELSE /\ Len(tasks) < MaxTasks
                /\ tasks' = Append(tasks,
                               [hotel_id |-> hotel_id, type |-> task_type, status |-> "OPEN",
                                staff_summary |-> summary, created_at |-> now])
                /\ notified' = Append(notified, Len(tasks) + 1)
                /\ ret' = Len(tasks) + 1
    /\ UNCHANGED <<now, guests, rooms, stays, journeys, events, last, sw, chatvars, linkvars>>

\* the instants at which requests arrive: at the creation of a task, within the
\* window, at its end and past it
TaskInstants == {1, 2, 1 + DEDUP_SECONDS, 2 + DEDUP_SECONDS}

AdvanceTask ==
    /\ \E t \in TaskInstants : /\ t > now
                               /\ \A u \in TaskInstants : u > now => t <= u
                               /\ now' = t
    /\ ret' = None
    /\ UNCHANGED <<guests, rooms, stays, journeys, events, last, sw, chatvars, tasks,
                   notified, linkvars>>

InitTask ==
    /\ InitTables
    /\ sw = <<>>

NextTask ==
    \/ \E h \in TaskHotels, ty \in TaskTypes, sm \in Summaries : create_task(h, ty, sm)
    \/ AdvanceTask

SpecTask == InitTask /\ [][NextTask]_vars

(***************************************************************************)
(* Message texts. A text is the sequence of its words and a word the        *)
(* sequence of its characters; the regular expressions of the handlers are  *)
(* evaluated on this form (whitespace separates words, the text is          *)
(* stripped).                                                                *)
(***************************************************************************)
UpperCase == <<"A", "B", "C", "D", "E", "F", "M", "N", "O", "R", "S", "T", "Y">>
LowerCase == <<"a", "b", "c", "d", "e", "f", "m", "n", "o", "r", "s", "t", "y">>
\* str.lower, also what re.IGNORECASE compares
lower(c) ==
    IF \E k \in DOMAIN UpperCase : UpperCase[k] = c
    THEN LowerCase[CHOOSE k \in DOMAIN UpperCase : UpperCase[k] = c]
    ELSE c
lower_word(w) == [k \in 1..Len(w) |-> lower(w[k])]
lower_text(text) == [i \in 1..Len(text) |-> lower_word(text[i])]

HexLower == Digits \cup {"a", "b", "c", "d", "e", "f"}
\* \d+ and [a-f0-9]+
IsDigits(w) == w # <<>> /\ \A k \in 1..Len(w) : w[k] \in Digits
IsHexLower(w) == w # <<>> /\ \A k \in 1..Len(w) : w[k] \in HexLower
After(w, k) == SubSeq(w, k + 1, Len(w))

DigitChars == <<"0", "1", "2", "3", "4", "5", "6", "7", "8", "9">>
\* int(): the number a digit string denotes
RECURSIVE to_int(_)
to_int(w) ==
    IF w = <<>> THEN 0
    ELSE 10 * to_int(SubSeq(w, 1, Len(w) - 1))
         + (CHOOSE n \in 0..9 : DigitChars[n + 1] = w[Len(w)])

\* "#(\d+)" at the end of a word: the digits, <<>> when the word does not end so
HashId(w) ==
    LET K == {k \in 1..Len(w) : w[k] = "#" /\ IsDigits(After(w, k))}
    IN  IF K = {} THEN <<>> ELSE After(w, CHOOSE k \in K : TRUE)
\* the words "#<digits>" and "!<hex>", the latter under re.IGNORECASE
IsHashWord(w) == Len(w) >= 2 /\ w[1] = "#" /\ IsDigits(After(w, 1))
IsTokenWord(w) == Len(w) >= 2 /\ w[1] = "!" /\ IsHexLower(lower_word(After(w, 1)))

NoToken == <<>>

(***************************************************************************)
(* Tenants: hotel 1 is the default hotel and has no room-code tokens,       *)
(* hotel 2 has one registered token. Both are on the basic tier, active,    *)
(* and have a PMS configured.                                               *)
(***************************************************************************)
DEFAULT_HOTEL_ID == 1
Hotels ==
    <<[subscription_tier |-> "basic", qr_tokens |-> {}, is_active |-> TRUE,
       pms_type |-> "mews"],
      [subscription_tier |-> "basic", qr_tokens |-> {<<"a", "7">>}, is_active |-> TRUE,
       pms_type |-> "apaleo"]>>

(***************************************************************************)
(* app/services/identity_resolver.py                                        *)
(***************************************************************************)
\* phone_variants: the digits (a leading 00 dropped), the digits without one
\* leading 0, and for 40... the local form with a leading 0
phone_variants(raw_phone) ==
    LET d0 == SelectSeq(raw_phone, IsDigit)
        digits == IF Len(d0) >= 2 /\ d0[1] = "0" /\ d0[2] = "0" THEN After(d0, 2) ELSE d0
    IN  IF d0 = <<>> THEN {}
        ELSE ({digits}
              \cup (IF Len(digits) > 1 /\ digits[1] = "0" THEN {After(digits, 1)} ELSE {})
              \cup (IF Len(digits) > 2 /\ digits[1] = "4" /\ digits[2] = "0"
                    THEN {<<"0">> \o After(digits, 2)} ELSE {})) \ {<<>>}

\* canonical_phone: the longest variant
canonical_phone(raw_phone) ==
    LET V == phone_variants(raw_phone)
    IN  IF V = {} THEN <<>> ELSE CHOOSE v \in V : \A u \in V : Len(u) <= Len(v)

\* an ordering by checkin_date ascending: the stay with the earliest check-in
MostRecent_Earliest(ss, S) ==
    IF S = {} THEN None
    ELSE CHOOSE i \in S : \A j \in S : ss[i].checkin_date <= ss[j].checkin_date

\* the stay with the latest checkin_date among the given ones
MostRecent(ss, S) ==
    IF S = {} THEN None
    ELSE CHOOSE i \in S : \A j \in S : ss[j].checkin_date <= ss[i].checkin_date

\* _find_guest_globally: over all hotels, the IN_HOUSE stay with the latest
\* check-in among those of guests whose hash is a variant of the phone
find_guest_globally(gs, ss, variant_hashes) ==
    MostRecent(ss, {i \in Ids(ss) : /\ ss[i].status = "IN_HOUSE"
                                    /\ gs[ss[i].guest_id].phone_hash \in variant_hashes})

\* resolve_identity: the guest table afterwards and the context (hotel, guest,
\* stay); hotel None when the hotel does not exist
resolve_identity(gs, ss, wa_id, hotel_id) ==
    LET variant_hashes == phone_variants(wa_id)
        use_global_lookup == hotel_id = None \/ hotel_id = DEFAULT_HOTEL_ID
        found == IF use_global_lookup THEN find_guest_globally(gs, ss, variant_hashes)
                 ELSE None
        hotel == IF hotel_id # None THEN hotel_id ELSE DEFAULT_HOTEL_ID
        known == First({g \in Ids(gs) : /\ gs[g].hotel_id = hotel
                                        /\ gs[g].phone_hash \in variant_hashes})
        canonical == canonical_phone(wa_id)
        created == Append(gs, [hotel_id |-> hotel,
                               phone_hash |-> IF canonical # <<>> THEN canonical ELSE wa_id,
                               phone_plain |-> canonical, line_user_id |-> NoUser])
        guest == IF known # None THEN known ELSE Len(gs) + 1
        gs1 == IF known # None THEN gs ELSE created
        \* _ensure_guest_pii
        gs2 == IF canonical # <<>> /\ gs1[guest].phone_plain = <<>>
               THEN [gs1 EXCEPT ![guest].phone_plain = canonical]
               ELSE gs1
    IN  IF found # None
        THEN [guests |-> gs, hotel |-> gs[ss[found].guest_id].hotel_id,
              guest |-> ss[found].guest_id, stay |-> found]
        ELSE IF hotel \notin Ids(Hotels)
        THEN [guests |-> gs, hotel |-> None, guest |-> None, stay |-> None]
        ELSE [guests |-> gs2, hotel |-> hotel, guest |-> guest,
              stay |-> MostRecent(ss, {i \in Ids(ss) : ss[i].guest_id = guest})]

(***************************************************************************)
(* app/api/routes_webhook_whatsapp.py                                       *)
(***************************************************************************)
SPAM_SECONDS == 30
MaxIncoming == 2

\* get_or_create_conversation (and _get_or_create_conversation of the LINE
\* webhook, which differs in the channel only): the table afterwards
get_or_create_conversation(cs, ss, hotel_id, guest_id, stay_id, channel, t) ==
    LET c == OpenConversation(cs, hotel_id, guest_id, channel)
    IN  IF c = None
        THEN Append(cs, [hotel_id |-> hotel_id, guest_id |-> guest_id, stay_id |-> stay_id,
                         room_id |-> None, channel |-> channel, status |-> "OPEN",
                         last_qr_scan_at |-> None, updated_at |-> t])
        ELSE IF stay_id # None /\ cs[c].stay_id # stay_id
        THEN [cs EXCEPT ![c].stay_id = stay_id,
                        ![c].room_id = IF ss[stay_id].room_id # None
                                       THEN ss[stay_id].room_id ELSE @,
                        ![c].updated_at = t]
        ELSE cs

Incoming(ms) == {m \in Ids(ms) : ms[m].direction = "INCOMING"}

\* the deduplication query: an incoming message whose stored payload has the
\* message id under the key "id". The stored payload is the "value" object of
\* the webhook, which has no such key ("" stands for the absent key).
DuplicateMessage(ms, message_id) ==
    IF message_id = "" THEN None
    ELSE First({m \in Incoming(ms) : ms[m].raw_payload_json.id = message_id})

\* the spam query: the same text in the conversation within the last 30 s
RecentSameText(ms, c, text, t) ==
    First({m \in Incoming(ms) : /\ ms[m].conversation_id = c
                                /\ ms[m].text = text
                                /\ ms[m].created_at >= t - SPAM_SECONDS})

\* receive_whatsapp_webhook (POST /webhook/whatsapp/{hotel_id})
receive_whatsapp_webhook(hotel_id, wa_id, text, message_id) ==
    /\ IF DuplicateMessage(messages, message_id) # None
       THEN UNCHANGED <<guests, conversations, messages, inbox>>
       ELSE \E context \in {resolve_identity(guests, stays, wa_id, hotel_id)} :
            IF context.hotel = None
            THEN UNCHANGED <<guests, conversations, messages, inbox>>
            ELSE \E cs \in {get_or_create_conversation(conversations, stays, context.hotel,
                                context.guest, context.stay, "whatsapp", now)} :
                 \E c \in {OpenConversation(cs, context.hotel, context.guest, "whatsapp")} :
                     /\ guests' = context.guests
                     /\ conversations' = cs
                     /\ IF text # <<>> /\ RecentSameText(messages, c, text, now) # None
                        THEN UNCHANGED <<messages, inbox>>
                        ELSE /\ messages' = Append(messages,
                                  [conversation_id |-> c, sender_type |-> "GUEST",
                                   direction |-> "INCOMING", text |-> text,
                                   created_at |-> now,
                                   raw_payload_json |->
                                       [id |-> "", message_id |-> message_id,
                                        wa_id |-> wa_id, line_user_id |-> NoUser]])
                             /\ inbox' = Append(inbox, Len(messages) + 1)
    /\ UNCHANGED <<now, rooms, stays, journeys, events, last, sw, transport, jw, taskvars,
                   redis>>

\* the two searches of the shared endpoint for "#<hotel> !<token>" and for
\* "#<hotel>" at the end of the text; the token pattern is lower-case hex
parse_qr_suffix(text) ==
    LET n == Len(text)
        with_token == /\ n >= 2
                      /\ Len(text[n]) >= 2
                      /\ text[n][1] = "!"
                      /\ IsHexLower(After(text[n], 1))
                      /\ HashId(text[n - 1]) # <<>>
        legacy == n >= 1 /\ HashId(text[n]) # <<>>
    IN  IF with_token
        THEN [hotel_id |-> to_int(HashId(text[n - 1])), qr_token |-> After(text[n], 1)]
        ELSE IF legacy
        THEN [hotel_id |-> to_int(HashId(text[n])), qr_token |-> NoToken]
        ELSE [hotel_id |-> None, qr_token |-> NoToken]

\* the token check of the shared endpoint: a token that is not registered, or
\* no token for a hotel that has tokens
TokenRejected(p) ==
    /\ p.hotel_id # None
    /\ p.hotel_id \in Ids(Hotels)
    /\ IF p.qr_token # NoToken
       THEN p.qr_token \notin Hotels[p.hotel_id].qr_tokens
       ELSE Hotels[p.hotel_id].qr_tokens # {}

\* the OPEN whatsapp conversations of the phone, those updated last
ExistingConversations(cs, gs, wa_id) ==
    LET S == {c \in Ids(cs) : /\ cs[c].channel = "whatsapp"
                              /\ cs[c].status = "OPEN"
                              /\ gs[cs[c].guest_id].phone_hash \in phone_variants(wa_id)}
    IN  {c \in S : \A d \in S : cs[d].updated_at <= cs[c].updated_at}

\* receive_whatsapp_webhook_default (POST /webhook/whatsapp)
receive_whatsapp_webhook_default(wa_id, text, message_id) ==
    LET p == parse_qr_suffix(text)
        existing == ExistingConversations(conversations, guests, wa_id)
    IN  IF TokenRejected(p)
        THEN UNCHANGED vars
        ELSE IF p.hotel_id # None
        THEN receive_whatsapp_webhook(p.hotel_id, wa_id, text, message_id)
        ELSE IF existing # {}
        THEN \E c \in existing :
                receive_whatsapp_webhook(conversations[c].hotel_id, wa_id, text, message_id)
        ELSE UNCHANGED vars

(***************************************************************************)
(* app/api/routes_webhook_line.py                                           *)
(***************************************************************************)
\* sha256("line:" + user_id), by its preimage
line_hash(user_id) == <<"line:", user_id>>

\* receive_line_webhook (POST /webhook/line/{hotel_id}) for one text message
\* event; the display name of the profile is not part of the model
receive_line_webhook(hotel_id, user_id, text) ==
    /\ hotel_id \in Ids(Hotels)
    /\ LET linked == First({g \in Ids(guests) : /\ guests[g].hotel_id = hotel_id
                                                /\ guests[g].line_user_id = user_id})
           placeholder == First({g \in Ids(guests) :
                                    /\ guests[g].hotel_id = hotel_id
                                    /\ guests[g].phone_hash = line_hash(user_id)})
           gs == IF linked # None \/ placeholder # None THEN guests
                 ELSE Append(guests, [hotel_id |-> hotel_id, phone_hash |-> line_hash(user_id),
                                      phone_plain |-> <<>>, line_user_id |-> NoUser])
           guest == IF linked # None THEN linked
                    ELSE IF placeholder # None THEN placeholder ELSE Len(guests) + 1
           stay == IF gs[guest].line_user_id # NoUser
                   THEN MostRecent(stays, {i \in Ids(stays) : stays[i].guest_id = guest})
                   ELSE None
           cs == get_or_create_conversation(conversations, stays, hotel_id, guest, stay,
                                            "line", now)
       IN  /\ guests' = gs
           /\ conversations' = cs
           /\ messages' = Append(messages,
                  [conversation_id |-> OpenConversation(cs, hotel_id, guest, "line"),
                   sender_type |-> "GUEST", direction |-> "INCOMING", text |-> text,
                   created_at |-> now,
                   raw_payload_json |-> [id |-> "", message_id |-> "", wa_id |-> <<>>,
                                         line_user_id |-> user_id]])
           /\ inbox' = Append(inbox, Len(messages) + 1)
    /\ UNCHANGED <<now, rooms, stays, journeys, events, last, sw, transport, jw, taskvars,
                   redis>>

(***************************************************************************)
(* app/workers/jobs.py                                                       *)
(***************************************************************************)
QR_SESSION_HOURS == 48
PENDING_LINK_SECONDS == 300
SessionSeconds == QR_SESSION_HOURS * 3600

ConnectRoom == <<<<"c", "o", "n", "n", "e", "c", "t">>, <<"r", "o", "o", "m">>>>
StartsConnectRoom(text) ==
    Len(text) >= 3 /\ SubSeq(lower_text(text), 1, 2) = ConnectRoom /\ IsDigits(text[3])

\* the room-code pattern of _handle_whatsapp_room_linking, matched under
\* re.IGNORECASE: connect room <n> [#<hotel>] [!<token>]; else a typed number
\* of 1 to 4 digits
parse_room_link(text) ==
    LET n == Len(text)
        is_qr_scan ==
            /\ StartsConnectRoom(text)
            /\ \/ n = 3
               \/ n = 4 /\ (IsHashWord(text[4]) \/ IsTokenWord(text[4]))
               \/ n = 5 /\ IsHashWord(text[4]) /\ IsTokenWord(text[5])
        typed == n = 1 /\ IsDigits(text[1]) /\ Len(text[1]) <= 4
    IN  IF is_qr_scan
        THEN [room_number |-> text[3],
              extracted_hotel_id |-> IF n >= 4 /\ IsHashWord(text[4])
                                     THEN After(text[4], 1) ELSE <<>>,
              extracted_token |-> IF IsTokenWord(text[n]) THEN After(text[n], 1)
                                  ELSE NoToken,
              is_qr_scan |-> TRUE]
        ELSE [room_number |-> IF typed THEN text[1] ELSE <<>>,
              extracted_hotel_id |-> <<>>, extracted_token |-> NoToken,
              is_qr_scan |-> FALSE]

\* a guard that lets a typed number through
TypedWhileLinked_Never(is_qr_scan, room_id) == FALSE
\* "Plain typed numbers cannot change room (only QR scans can)"
TypedWhileLinked(is_qr_scan, room_id) == ~is_qr_scan /\ room_id # None

\* _handle_whatsapp_room_linking: whether the message was handled, and the
\* conversation and room tables afterwards
handle_whatsapp_room_linking(cs, rs, c, text, t) ==
    LET hotel == Hotels[cs[c].hotel_id]
        p == parse_room_link(text)
        target_hotel_id == IF p.extracted_hotel_id # <<>> THEN to_int(p.extracted_hotel_id)
                           ELSE cs[c].hotel_id
        rs1 == get_or_create_room(rs, target_hotel_id, p.room_number)
        same == [handled |-> FALSE, conversations |-> cs, rooms |-> rs]
    IN  IF hotel.subscription_tier = "pro" THEN same
        ELSE IF p.room_number = <<>>
        THEN [same EXCEPT !.handled = cs[c].room_id = None]
        ELSE IF TypedWhileLinked(p.is_qr_scan, cs[c].room_id) THEN same
        ELSE IF /\ p.is_qr_scan
                /\ hotel.qr_tokens # {}
                /\ p.extracted_token \notin hotel.qr_tokens
        THEN [same EXCEPT !.handled = TRUE]
        ELSE [handled |-> TRUE, rooms |-> rs1,
              conversations |->
                  [cs EXCEPT ![c].room_id = RoomByNumber(rs1, target_hotel_id, p.room_number),
                             ![c].last_qr_scan_at = t, ![c].updated_at = t]]

\* redis: GET of a key that may have expired
NoKey == [value |-> None, expires_at |-> 0]
\* a GET that ignores the expiry
redis_get_Stale(rd, key, t) == rd[key].value

redis_get(rd, key, t) == IF t < rd[key].expires_at THEN rd[key].value ELSE None

\* the room-code pattern of _handle_line_room_linking on the lower-cased
\* text: connect room <n> [#<hotel>] (of its alternatives the English one)
line_qr_scan(text) ==
    /\ StartsConnectRoom(text)
    /\ Len(text) = 3 \/ (Len(text) = 4 /\ IsHashWord(text[4]))

\* the IN_HOUSE stay in the room of that number in the hotel, latest check-in
StayInRoom(ss, rs, hotel_id, room_number) ==
    MostRecent(ss, {i \in Ids(ss) : /\ ss[i].status = "IN_HOUSE"
                                    /\ ss[i].room_id # None
                                    /\ rs[ss[i].room_id].room_number = room_number
                                    /\ ss[i].hotel_id = hotel_id})

\* _handle_line_room_linking
handle_line_room_linking(gs, cs, rs, ss, rd, c, text, line_user_id, t) ==
    LET same == [handled |-> FALSE, guests |-> gs, conversations |-> cs, rooms |-> rs,
                 redis |-> rd]
        done == [same EXCEPT !.handled = TRUE]
        pending_guest_id == redis_get(rd, line_user_id, t)
        room_number == IF StartsConnectRoom(text) /\ Len(text) = 3 THEN text[3] ELSE <<>>
        stay == StayInRoom(ss, rs, cs[c].hotel_id, room_number)
        rs1 == get_or_create_room(rs, cs[c].hotel_id, room_number)
    IN  IF gs[cs[c].guest_id].line_user_id # NoUser THEN same
        ELSE IF cs[c].room_id # None /\ ~line_qr_scan(text) THEN same
        ELSE IF lower_text(text) = <<<<"y", "e", "s">>>> /\ pending_guest_id # None
        THEN [done EXCEPT !.guests = [gs EXCEPT ![pending_guest_id].line_user_id = line_user_id],
                          !.conversations = [cs EXCEPT ![c].guest_id = pending_guest_id,
                                                       ![c].updated_at = t],
                          !.redis = [rd EXCEPT ![line_user_id] = NoKey]]
        ELSE IF room_number # <<>> /\ stay # None
        THEN [done EXCEPT !.redis = [rd EXCEPT ![line_user_id] =
                                        [value |-> ss[stay].guest_id,
                                         expires_at |-> t + PENDING_LINK_SECONDS]]]
        ELSE IF room_number # <<>>
        THEN [done EXCEPT !.rooms = rs1,
                          !.conversations =
                              [cs EXCEPT ![c].room_id =
                                             RoomByNumber(rs1, cs[c].hotel_id, room_number),
                                         ![c].last_qr_scan_at = t, ![c].updated_at = t]]
        ELSE done


\* the texts the system messages and the reply of the brain stand for
SessionExpired == <<<<"s", "e", "s", "s", "i", "o", "n">>, <<"e", "x", "p", "i", "r", "e", "d">>>>
StayEnded == <<<<"s", "t", "a", "y">>, <<"e", "n", "d", "e", "d">>>>
Reply == <<<<"r", "e", "p", "l", "y">>>>
BotMessage(c, text, t) ==
    [conversation_id |-> c, sender_type |-> "BOT", direction |-> "OUTGOING", text |-> text,
     created_at |-> t, raw_payload_json |-> None]

\* the session of a room-code-linked conversation is over
session_expired(conversation, t) ==
    /\ conversation.stay_id = None
    /\ conversation.room_id # None
    /\ \/ conversation.last_qr_scan_at = None
       \/ t - conversation.last_qr_scan_at > SessionSeconds

\* process_incoming_message, the job the webhooks enqueue: the worker takes the
\* oldest one. The bot is not paused, the hotels are active and not on trial.
process_incoming_message ==
    /\ inbox # <<>>
    /\ inbox' = Tail(inbox)
    /\ LET message == messages[Head(inbox)]
           c == message.conversation_id
           line_user_id == message.raw_payload_json.line_user_id
           wa_id == message.raw_payload_json.wa_id
           untouched == [handled |-> FALSE, guests |-> guests,
                         conversations |-> conversations, rooms |-> rooms, redis |-> redis]
           line == IF line_user_id # NoUser
                   THEN handle_line_room_linking(guests, conversations, rooms, stays, redis,
                                                 c, message.text, line_user_id, now)
                   ELSE untouched
           wa == IF line_user_id = NoUser /\ wa_id # <<>>
                 THEN handle_whatsapp_room_linking(conversations, rooms, c, message.text, now)
                 ELSE [handled |-> FALSE, conversations |-> conversations, rooms |-> rooms]
           conversation == conversations[c]
       IN  IF line.handled
           THEN /\ guests' = line.guests
                /\ conversations' = line.conversations
                /\ rooms' = line.rooms
                /\ redis' = line.redis
                /\ UNCHANGED messages
           ELSE IF wa.handled
           THEN /\ conversations' = wa.conversations
                /\ rooms' = wa.rooms
                /\ UNCHANGED <<guests, redis, messages>>
           ELSE IF session_expired(conversation, now)
           THEN /\ messages' = Append(messages, BotMessage(c, SessionExpired, now))
                /\ conversations' = [conversations EXCEPT ![c].room_id = None,
                                                          ![c].status = "CLOSED",
                                                          ![c].updated_at = now]
                /\ UNCHANGED <<guests, rooms, redis>>
           ELSE IF /\ conversation.stay_id # None
                   /\ stays[conversation.stay_id].status = "POST_STAY"
           THEN /\ messages' = Append(messages, BotMessage(c, StayEnded, now))
                /\ UNCHANGED <<guests, conversations, rooms, redis>>
           ELSE /\ messages' = Append(messages, BotMessage(c, Reply, now))
                /\ UNCHANGED <<guests, conversations, rooms, redis>>
    /\ UNCHANGED <<now, stays, journeys, events, last, sw, transport, jw, taskvars>>

(***************************************************************************)
(* The message path: one phone on WhatsApp, one LINE user, the two tenants. *)
(***************************************************************************)
Connect == <<"C", "o", "n", "n", "e", "c", "t">>
Room == <<"R", "o", "o", "m">>
\* the room code of room 5 of hotel 2; the same without its token; the same
\* with the token in upper case; the room code of room 6 of hotel 1, which has
\* no tokens; a typed number
ScanValid == <<Connect, Room, <<"5">>, <<"#", "2">>, <<"!", "a", "7">>>>
ScanNoToken == <<Connect, Room, <<"5">>, <<"#", "2">>>>
ScanUpper == <<Connect, Room, <<"5">>, <<"#", "2">>, <<"!", "A", "7">>>>
ScanOther == <<Connect, Room, <<"6">>, <<"#", "1">>>>
Typed == <<<<"7">>>>
WhatsAppTexts == {ScanValid, ScanNoToken, ScanUpper, ScanOther, Typed}
\* LINE room codes carry no tenant: room 101 and room 5 of the hotel of the channel
LineTexts == {<<Connect, Room, <<"1", "0", "1">>>>, <<Connect, Room, <<"5">>>>, Typed,
              <<<<"Y", "e", "s">>>>}
WaIds == {<<"4", "0", "8">>}
LineUsers == {"U1"}
MessageIds == {"wamid.1"}

\* the instants at which messages arrive: at the start, past the 30 s of the
\* spam window, past the life of a pending link, past the session
LinkInstants ==
    {1, 2 + SPAM_SECONDS, 2 + SessionSeconds}

AdvanceLink ==
    /\ \E t \in LinkInstants : /\ t > now
                               /\ \A u \in LinkInstants : u > now => t <= u
                               /\ now' = t
    /\ UNCHANGED <<guests, rooms, stays, journeys, events, last, sw, chatvars, taskvars,
                   linkvars>>

\* the reservation the PMS of hotel 1 reports for the phone
LinkArrivals ==
    {[reservation_id |-> "R1", guest_phone |-> <<"4", "0", "8">>,
      room_number |-> <<"1", "0", "1">>, state |-> "in_house",
      dates |-> <<0, 3 + SessionSeconds>>]}

InitLink ==
    /\ now = 1
    /\ guests = <<>>
    /\ rooms = <<>>
    /\ stays = <<>>
    /\ journeys = JourneyConfig
    /\ events = <<>>
    /\ last = NoLast
    /\ sw = <<>>
    /\ conversations = <<>>
    /\ messages = <<>>
    /\ transport = {}
    /\ jw = <<>>
    /\ tasks = <<>>
    /\ notified = <<>>
    /\ ret = None
    /\ inbox = <<>>
    /\ redis = [u \in LineUsers |-> NoKey]

\* the number of messages received so far
Received == Cardinality(Incoming(messages))

NextLink ==
    \/ /\ Received < MaxIncoming
       /\ \E wa_id \in WaIds, text \in WhatsAppTexts, id \in MessageIds :
              receive_whatsapp_webhook_default(wa_id, text, id)
    \/ /\ Received < MaxIncoming
       /\ \E u \in LineUsers, text \in LineTexts :
              receive_line_webhook(DEFAULT_HOTEL_ID, u, text)
    \/ process_incoming_message
    \/ \E r \in LinkArrivals : SyncCheckin(DEFAULT_HOTEL_ID, r)
    \/ AdvanceLink

SpecLink == InitLink /\ [][NextLink]_vars

(***************************************************************************)
(* The session of one phone: the endpoint of hotel 1 and the shared one,    *)
(* a room code of hotel 1 and a typed number, one message more; the PMS of  *)
(* hotel 2 may report the phone as checked in.                              *)
(***************************************************************************)
SessionTexts == {ScanOther, Typed}

NextSession ==
    \/ /\ Received <= MaxIncoming
       /\ \E wa_id \in WaIds, text \in SessionTexts, id \in MessageIds :
              receive_whatsapp_webhook(DEFAULT_HOTEL_ID, wa_id, text, id)
    \/ /\ Received <= MaxIncoming
       /\ \E wa_id \in WaIds, text \in SessionTexts, id \in MessageIds :
              receive_whatsapp_webhook_default(wa_id, text, id)
    \/ process_incoming_message
    \/ \E h \in Ids(Hotels) \ {DEFAULT_HOTEL_ID}, r \in LinkArrivals : SyncCheckin(h, r)
    \/ AdvanceLink

SpecSession == InitLink /\ [][NextSession]_vars

(***************************************************************************)
(* One phone number in its written forms: it writes to both tenants, and    *)
(* the PMS of both tenants reports it as checked in.                        *)
(***************************************************************************)
\* the number 7 of country 40: international with "+", with "00", and local
WrittenForms == {<<"+", "4", "0", "7">>, <<"0", "0", "4", "0", "7">>, <<"0", "7">>}

\* the check-ins the PMS of a tenant reports for the number, written with "00"
\* or in the local form: tenant 1 on day 0, tenant 2 on day 1
IdentityArrivals(h) ==
    {[reservation_id |-> "R1", guest_phone |-> p, room_number |-> <<"1", "0", "1">>,
      state |-> "in_house", dates |-> <<h - 1, 3 + SessionSeconds>>] :
        p \in WrittenForms \ {<<"+", "4", "0", "7">>}}

NextIdentity ==
    \/ /\ Received < MaxIncoming
       /\ \E h \in Ids(Hotels), wa_id \in WrittenForms, id \in MessageIds :
              receive_whatsapp_webhook(h, wa_id, Typed, id)
    \/ \E h \in Ids(Hotels) : \E r \in IdentityArrivals(h) : SyncCheckin(h, r)

SpecIdentity == InitLink /\ [][NextIdentity]_vars

\* the check-ins the PMS of a tenant reports for the number in any written form
PiiArrivals(h) ==
    {[reservation_id |-> "R1", guest_phone |-> p, room_number |-> <<"1", "0", "1">>,
      state |-> "in_house", dates |-> <<h - 1, 3 + SessionSeconds>>] : p \in WrittenForms}

NextPii ==
    \/ /\ Received < MaxIncoming
       /\ \E h \in Ids(Hotels), wa_id \in WrittenForms, id \in MessageIds :
              receive_whatsapp_webhook(h, wa_id, Typed, id)
    \/ \E h \in Ids(Hotels) : \E r \in PiiArrivals(h) : SyncCheckin(h, r)

SpecPii == InitLink /\ [][NextPii]_vars

(***************************************************************************)
(* The safety sweep with stays of two tenants, some past their checkout.    *)
(***************************************************************************)
NextCleanup ==
    \/ \E h \in Ids(Hotels) : \E r \in FetchedInHouse \cup Arrivals : SyncCheckin(h, r)
    \/ run_stay_cleanup_for_all_hotels
    \/ Tick

SpecCleanup == Init /\ [][NextCleanup]_vars

(***************************************************************************)
(* First contact on two workers: the webhook of a message and the check-in  *)
(* of the PMS, each split at its database round trips.                      *)
(***************************************************************************)
\* the handlers a worker is in the middle of
InFlight == Cardinality({w \in DOMAIN sw : sw[w].pc \in {"resolve_insert", "conversation",
                                                        "conversation_insert", "store"}})

\* receive_whatsapp_webhook up to the guest query of resolve_identity: the global
\* lookup and the lookup by the variants in the hotel
ResolveStart(w, hotel_id, wa_id, text, message_id) ==
    /\ sw[w].pc = "idle"
    /\ DuplicateMessage(messages, message_id) = None
    /\ LET context == resolve_identity(guests, stays, wa_id, hotel_id)
           found == Len(context.guests) = Len(guests)
       IN  /\ guests' = IF found THEN context.guests ELSE guests
           /\ sw' = [sw EXCEPT ![w] =
                  [pc |-> IF found THEN "conversation" ELSE "resolve_insert",
                   hotel_id |-> context.hotel, wa_id |-> wa_id, text |-> text,
                   message_id |-> message_id,
                   guest |-> IF found THEN context.guest ELSE None,
                   stay |-> IF found THEN context.stay ELSE None,
                   conversation |-> None]]
    /\ UNCHANGED <<now, rooms, stays, journeys, events, last, chatvars, taskvars, linkvars>>

\* resolve_identity from the insert on: the commit, on IntegrityError the re-query
\* by the hash that was to be inserted, then _ensure_guest_pii and the stay query
ResolveInsert(w) ==
    /\ sw[w].pc = "resolve_insert"
    /\ LET canonical == canonical_phone(sw[w].wa_id)
           hash_value == IF canonical # <<>> THEN canonical ELSE sw[w].wa_id
           conflict == GuestByHash(guests, sw[w].hotel_id, hash_value)
           guest == IF conflict # None THEN conflict ELSE Len(guests) + 1
           gs == IF conflict # None THEN guests
                 ELSE Append(guests, [hotel_id |-> sw[w].hotel_id, phone_hash |-> hash_value,
                                      phone_plain |-> <<>>, line_user_id |-> NoUser])
       IN  /\ guests' = IF canonical # <<>> /\ gs[guest].phone_plain = <<>>
                        THEN [gs EXCEPT ![guest].phone_plain = canonical]
                        ELSE gs
           /\ sw' = [sw EXCEPT ![w].pc = "conversation", ![w].guest = guest,
                               ![w].stay = MostRecent(stays, {i \in Ids(stays) :
                                                                 stays[i].guest_id = guest})]
    /\ UNCHANGED <<now, rooms, stays, journeys, events, last, chatvars, taskvars, linkvars>>

\* get_or_create_conversation: the query, and the update of the one found
ConversationQuery(w) ==
    /\ sw[w].pc = "conversation"
    /\ LET c == OpenConversation(conversations, sw[w].hotel_id, sw[w].guest, "whatsapp")
       IN  IF c = None
           THEN /\ sw' = [sw EXCEPT ![w].pc = "conversation_insert"]
                /\ UNCHANGED conversations
           ELSE /\ conversations' = get_or_create_conversation(conversations, stays,
                                        sw[w].hotel_id, sw[w].guest, sw[w].stay, "whatsapp", now)
                /\ sw' = [sw EXCEPT ![w].pc = "store", ![w].conversation = c]
    /\ UNCHANGED <<now, guests, rooms, stays, journeys, events, last, messages, transport, jw,
                   taskvars, linkvars>>

\* get_or_create_conversation: the insert; the table has no unique constraint,
\* so the commit raises no IntegrityError
ConversationInsert(w) ==
    /\ sw[w].pc = "conversation_insert"
    /\ conversations' = Append(conversations,
           [hotel_id |-> sw[w].hotel_id, guest_id |-> sw[w].guest, stay_id |-> sw[w].stay,
            room_id |-> None, channel |-> "whatsapp", status |-> "OPEN",
            last_qr_scan_at |-> None, updated_at |-> now])
    /\ sw' = [sw EXCEPT ![w].pc = "store", ![w].conversation = Len(conversations) + 1]
    /\ UNCHANGED <<now, guests, rooms, stays, journeys, events, last, messages, transport, jw,
                   taskvars, linkvars>>

\* receive_whatsapp_webhook from the spam check on
StoreMessage(w) ==
    /\ sw[w].pc = "store"
    /\ IF sw[w].text # <<>>
          /\ RecentSameText(messages, sw[w].conversation, sw[w].text, now) # None
       THEN UNCHANGED <<messages, inbox>>
       ELSE /\ messages' = Append(messages,
                 [conversation_id |-> sw[w].conversation, sender_type |-> "GUEST",
                  direction |-> "INCOMING", text |-> sw[w].text, created_at |-> now,
                  raw_payload_json |-> [id |-> "", message_id |-> sw[w].message_id,
                                        wa_id |-> sw[w].wa_id, line_user_id |-> NoUser]])
            /\ inbox' = Append(inbox, Len(messages) + 1)
    /\ sw' = [sw EXCEPT ![w] = Idle]
    /\ UNCHANGED <<now, guests, rooms, stays, journeys, events, last, conversations, transport,
                   jw, taskvars, redis>>

\* _handle_checkin up to the guest query of _get_or_create_guest; when the guest
\* is found the rest of the handler follows
GuestQuery(w, hotel_id, r) ==
    /\ sw[w].pc = "idle"
    /\ r.state = "in_house"
    /\ IF GuestByHash(guests, hotel_id, hash_phone(r.guest_phone)) = None
       THEN /\ sw' = [sw EXCEPT ![w] = [Idle EXCEPT !.pc = "guest_insert",
                                                    !.hotel_id = hotel_id, !.r = r]]
            /\ UNCHANGED <<guests, rooms, stays, events>>
       ELSE /\ \E db \in {handle_checkin(guests, rooms, stays, events, hotel_id, r)} :
                   /\ Len(db.stays) <= MaxStays
                   /\ guests' = db.guests
                   /\ rooms' = db.rooms
                   /\ stays' = db.stays
                   /\ events' = db.events
            /\ UNCHANGED sw
    /\ UNCHANGED <<now, journeys, last, chatvars, taskvars, linkvars>>

\* _get_or_create_guest from the insert on (the commit, on IntegrityError the
\* re-query), and the rest of _handle_checkin
GuestInsert(w) ==
    /\ sw[w].pc = "guest_insert"
    /\ LET phone_hash == hash_phone(sw[w].r.guest_phone)
           conflict == GuestByHash(guests, sw[w].hotel_id, phone_hash)
           gs == IF conflict # None THEN guests
                 ELSE Append(guests, [hotel_id |-> sw[w].hotel_id, phone_hash |-> phone_hash,
                                      phone_plain |-> <<>>, line_user_id |-> NoUser])
       IN  \E db \in {handle_checkin(gs, rooms, stays, events, sw[w].hotel_id, sw[w].r)} :
               /\ Len(db.stays) <= MaxStays
               /\ guests' = db.guests
               /\ rooms' = db.rooms
               /\ stays' = db.stays
               /\ events' = db.events
    /\ sw' = [sw EXCEPT ![w] = Idle]
    /\ UNCHANGED <<now, journeys, last, chatvars, taskvars, linkvars>>

NextRace ==
    \/ /\ Received + InFlight < MaxIncoming
       /\ \E w \in SyncWorkers, h \in Ids(Hotels) \ {DEFAULT_HOTEL_ID}, wa_id \in WrittenForms,
             id \in MessageIds : ResolveStart(w, h, wa_id, Typed, id)
    \/ \E w \in SyncWorkers : \/ ResolveInsert(w)
                              \/ ConversationQuery(w)
                              \/ ConversationInsert(w)
                              \/ StoreMessage(w)
                              \/ GuestInsert(w)
    \/ \E w \in SyncWorkers, h \in Ids(Hotels) \ {DEFAULT_HOTEL_ID} :
           \E r \in IdentityArrivals(h) : GuestQuery(w, h, r)

SpecRace == InitConc /\ [][NextRace]_vars

(***************************************************************************)
(* app/workers/jobs_pms.py: one sweep over the tenants.                     *)
(***************************************************************************)
\* the locals of run_pms_sync_for_all_hotels and of the sync_hotel it is in
NoSweep == [pc |-> "idle", hotels |-> <<>>, hotel |-> None, reservations |-> <<>>,
            errors |-> 0, synced |-> <<>>, failed_syncs |-> 0]

\* the except branch of the loop over the hotels: the failure is counted and the
\* loop goes on with the hotels that are left
AfterFailure_Abort(hotels) == <<>>

AfterFailure(hotels) == Tail(hotels)

\* run_pms_sync_for_all_hotels: the query for the active hotels with a PMS
run_pms_sync_for_all_hotels ==
    /\ sw.pc = "idle"
    /\ sw' = [NoSweep EXCEPT !.pc = "hotels",
                             !.hotels = AsList({h \in Ids(Hotels) : /\ Hotels[h].is_active
                                                                    /\ Hotels[h].pms_type # ""})]
    /\ UNCHANGED <<now, guests, rooms, stays, journeys, events, last, chatvars, taskvars,
                   linkvars>>

\* what get_reservations of a tenant's connector may deliver
Fetched ==
    {<<>>} \cup {<<i>> : i \in FetchedInHouse}
           \cup {<<i, o>> : i \in FetchedInHouse, o \in FetchedCheckedOut}
           \cup {<<o, i>> : i \in FetchedInHouse, o \in FetchedCheckedOut}

\* sync_hotel up to the loop over the reservations: the connector delivers them,
\* or the client or its request raises and sync_hotel returns with one error
sync_hotel ==
    /\ sw.pc = "hotels"
    /\ sw.hotels # <<>>
    /\ \/ \E reservations \in Fetched :
              sw' = [sw EXCEPT !.pc = "reservations", !.hotel = Head(sw.hotels),
                               !.reservations = reservations, !.errors = 0,
                               !.synced = Append(@, Head(sw.hotels))]
       \/ sw' = [sw EXCEPT !.hotels = AfterFailure(@),
                           !.synced = Append(@, Head(sw.hotels)),
                           !.failed_syncs = @ + 1]
    /\ UNCHANGED <<now, guests, rooms, stays, journeys, events, last, chatvars, taskvars,
                   linkvars>>

\* sync_hotel, one reservation: _handle_checkin or _handle_checkout, or the handler
\* raises before its first commit or after the commits of guest and room, rolls
\* back and counts an error
SyncReservation ==
    /\ sw.pc = "reservations"
    /\ sw.reservations # <<>>
    /\ LET r == Head(sw.reservations)
           db == IF r.state = "in_house"
                 THEN handle_checkin(guests, rooms, stays, events, sw.hotel, r)
                 ELSE [handle_checkout(stays, events, sw.hotel, r) EXCEPT !.stays = @]
                          @@ [guests |-> guests, rooms |-> rooms]
       IN  \/ /\ guests' = db.guests
              /\ rooms' = db.rooms
              /\ stays' = db.stays
              /\ events' = db.events
              /\ sw' = [sw EXCEPT !.reservations = Tail(@)]
           \/ /\ \/ UNCHANGED <<guests, rooms>>
                 \/ /\ guests' = db.guests
                    /\ rooms' = db.rooms
              /\ UNCHANGED <<stays, events>>
              /\ sw' = [sw EXCEPT !.reservations = Tail(@), !.errors = @ + 1]
    /\ UNCHANGED <<now, journeys, last, chatvars, taskvars, linkvars>>

\* sync_hotel returns its statistics and the loop over the hotels goes on
HotelSynced ==
    /\ sw.pc = "reservations"
    /\ sw.reservations = <<>>
    /\ sw' = [sw EXCEPT !.pc = "hotels", !.hotels = Tail(@), !.hotel = None,
                        !.failed_syncs = IF sw.errors > 0 THEN @ + 1 ELSE @]
    /\ UNCHANGED <<now, guests, rooms, stays, journeys, events, last, chatvars, taskvars,
                   linkvars>>

\* run_pms_sync_for_all_hotels: the loop is over, the session is closed
SweepDone ==
    /\ sw.pc = "hotels"
    /\ sw.hotels = <<>>
    /\ sw' = [sw EXCEPT !.pc = "done"]
    /\ UNCHANGED <<now, guests, rooms, stays, journeys, events, last, chatvars, taskvars,
                   linkvars>>

InitSweep ==
    /\ InitTables
    /\ sw = NoSweep

NextSweep ==
    \/ run_pms_sync_for_all_hotels
    \/ sync_hotel
    \/ SyncReservation
    \/ HotelSynced
    \/ SweepDone

\* the job runs to its end once the scheduler has started it
SpecSweep == InitSweep /\ [][NextSweep]_vars /\ WF_vars(NextSweep)

(***************************************************************************)
(* app/services/pms/apaleo_client.py and cloudbeds_client.py: _make_request *)
(* of a bearer-token connector against a server that answers as it likes.   *)
(***************************************************************************)
MaxRequests == 4

\* what requests.get may come back with: a status code, or a timeout
Statuses == {"200", "401", "429", "500", "Timeout"}

\* the connector: where _make_request is, its _retry flag, whether a token is at
\* hand (the cache entry of Apaleo, the settings of Cloudbeds), the answers to the
\* GETs of the request, the token refreshes and fetches of the request
NoRequest(client) ==
    [pc |-> "idle", client |-> client, retry |-> FALSE, token |-> client = "cloudbeds",
     http |-> <<>>, refreshes |-> 0, requests |-> 0, result |-> ""]

\* a guard that lets every 401 refresh and retry
MayRetry_Always(status, retry) == status = "401"

\* response.status_code == 401 and not _retry
MayRetry(status, retry) == status = "401" /\ ~retry

\* _make_request up to requests.get: the access token is read; Apaleo fetches one
\* when its cache has none, which may fail
make_request ==
    /\ sw.pc = "idle"
    /\ sw.requests < MaxRequests
    /\ \/ sw' = [sw EXCEPT !.pc = "get", !.retry = FALSE, !.http = <<>>, !.refreshes = 0,
                           !.token = TRUE, !.result = "", !.requests = @ + 1]
       \/ /\ ~sw.token
          /\ sw' = [sw EXCEPT !.http = <<>>, !.refreshes = 0, !.requests = @ + 1,
                              !.result = "ConnectionError"]
    /\ UNCHANGED <<now, guests, rooms, stays, journeys, events, last, chatvars, taskvars,
                   linkvars>>

\* requests.get and what follows it: on a first 401 the token is refreshed
\* (Cloudbeds) or dropped from the cache and fetched anew (Apaleo) and the request
\* is made again with _retry set; every other answer ends the request
request_get ==
    /\ sw.pc = "get"
    /\ \E status \in Statuses :
           LET http == Append(sw.http, status)
               failed == [sw EXCEPT !.pc = "idle", !.http = http,
                                    !.result = "ConnectionError"]
           IN  IF MayRetry(status, sw.retry)
               THEN \/ sw' = [sw EXCEPT !.http = http, !.retry = TRUE, !.token = TRUE,
                                        !.refreshes = @ + 1]
                    \/ sw' = [failed EXCEPT !.refreshes = @ + 1,
                                            !.token = sw.client = "cloudbeds"]
               ELSE IF status = "200"
               THEN sw' = [sw EXCEPT !.pc = "idle", !.http = http, !.result = "json"]
               ELSE sw' = failed
    /\ UNCHANGED <<now, guests, rooms, stays, journeys, events, last, chatvars, taskvars,
                   linkvars>>

InitRequest ==
    /\ InitTables
    /\ \E client \in {"apaleo", "cloudbeds"} : sw = NoRequest(client)

NextRequest ==
    \/ make_request
    \/ request_get

SpecRequest == InitRequest /\ [][NextRequest]_vars

(***************************************************************************)
(* app/api/routes_admin_integrations.py: generate_qr_token. The registry of *)
(* a hotel is the "qr_tokens" entry of hotel.settings, read and written back *)
(* as a whole; it keeps the order of insertion. A token is a number standing *)
(* for a string of six hex digits. Two requests may be in progress at once.  *)
(***************************************************************************)
QR_TOKEN_LIMIT == 500
QR_TOKEN_EVICT == 50
MaxGenerated == 2

StaffRequests == {1, 2}
NoGenerate == [pc |-> "idle", hotel_id |-> None, room |-> <<>>, qr_tokens |-> <<>>]

\* the tokens of a registry
TokensOf(reg) == {reg[i].token : i \in Ids(reg)}

\* the entries that come first when the registry is sorted by created_at (the
\* sort is stable: among equals the one inserted first comes first)
Oldest(reg, n) ==
    {i \in Ids(reg) :
        Cardinality({j \in Ids(reg) : \/ reg[j].created_at < reg[i].created_at
                                      \/ /\ reg[j].created_at = reg[i].created_at
                                         /\ j < i}) < n}

\* the registry after the limit was enforced: at 500 entries the 50 oldest go
Evicted(reg) ==
    IF Len(reg) >= QR_TOKEN_LIMIT
    THEN LET gone == {reg[i].token : i \in Oldest(reg, QR_TOKEN_EVICT)}
         IN  SelectSeq(reg, LAMBDA x : x.token \notin gone)
    ELSE reg

\* secrets.token_hex(3) drawn until it is not in the registry: any token that is
\* not in it; the two least of them stand for all
FreshTokens(reg) ==
    LET free == (1..(Len(reg) + 2)) \ TokensOf(reg)
    IN  {t \in free : Cardinality({u \in free : u < t}) < 2}

\* a registry after n requests, one a minute, the last one a minute ago
Stored(n) == [k \in 1..n |-> [token |-> k, room |-> <<"1", "0", "1">>, created_at |-> k - n]]

\* generate_qr_token up to the copy of hotel.settings["qr_tokens"]
generate_qr_token_read(w, hotel_id, room_number) ==
    /\ sw.req[w].pc = "idle"
    /\ sw.generated < MaxGenerated
    /\ sw' = [sw EXCEPT !.req[w] = [pc |-> "write", hotel_id |-> hotel_id,
                                    room |-> room_number,
                                    qr_tokens |-> sw.qr_tokens[hotel_id]],
                        !.generated = @ + 1]
    /\ UNCHANGED <<now, guests, rooms, stays, journeys, events, last, chatvars, taskvars,
                   linkvars>>

\* generate_qr_token from the limit on: eviction, the new token, the commit of
\* hotel.settings
generate_qr_token_write(w) ==
    /\ sw.req[w].pc = "write"
    /\ \E kept \in {Evicted(sw.req[w].qr_tokens)} :
       \E token \in FreshTokens(kept) :
           sw' = [sw EXCEPT !.qr_tokens[sw.req[w].hotel_id] =
                                Append(kept, [token |-> token, room |-> sw.req[w].room,
                                              created_at |-> now]),
                            !.req[w] = NoGenerate]
    /\ UNCHANGED <<now, guests, rooms, stays, journeys, events, last, chatvars, taskvars,
                   linkvars>>

\* the registry of the first hotel is empty, or one below the limit, or at it
InitTokens ==
    /\ InitTables
    /\ \E n \in {0, QR_TOKEN_LIMIT - 1, QR_TOKEN_LIMIT} :
           sw = [qr_tokens |-> [h \in Ids(Hotels) |-> IF h = 1 THEN Stored(n) ELSE <<>>],
                 req |-> [w \in StaffRequests |-> NoGenerate],
                 generated |-> 0]

NextTokens ==
    \/ \E w \in StaffRequests, h \in Ids(Hotels), room_number \in {<<"1", "0", "2">>} :
           generate_qr_token_read(w, h, room_number)
    \/ \E w \in StaffRequests : generate_qr_token_write(w)
    \/ Tick

SpecTokens == InitTokens /\ [][NextTokens]_vars

(***************************************************************************)
(* Properties of the reconciliation.                                        *)
(***************************************************************************)
InHouseStays == {i \in Ids(stays) : stays[i].status = "IN_HOUSE"}

\* C1: in every state reachable by reconciliation cycles and safety sweeps each
\* guest has at most one IN_HOUSE stay and each room has at most one IN_HOUSE stay.
C1_OneInHousePerGuestAndRoom ==
    \A i, j \in InHouseStays :
        i # j => /\ stays[i].guest_id # stays[j].guest_id
                 /\ stays[i].room_id = None \/ stays[i].room_id # stays[j].room_id

\* the stays of the payload handled last: tenant, reservation id and the guest of
\* its phone
StaysOfLast ==
    {i \in Ids(stays) : /\ stays[i].hotel_id = last.hotel_id
                        /\ stays[i].pms_reservation_id = last.r.reservation_id
                        /\ guests[stays[i].guest_id].phone_hash = hash_phone(last.r.guest_phone)}
WelcomeEventsOf(stay_id) ==
    {e \in Ids(events) : /\ events[e].stay_id = stay_id
                         /\ journeys[events[e].journey_id].name = "AFTER_CHECKIN_WELCOME"
                         /\ events[e].status \in {"PENDING", "SENT"}}

C3_RoomTurnover ==
    [][Len(stays') = Len(stays) + 1 =>
        LET new == stays'[Len(stays')]
        IN  \A i \in Ids(stays) :
                IF stays[i].status # "IN_HOUSE"
                THEN stays'[i] = stays[i]
                ELSE IF \/ stays[i].guest_id = new.guest_id
                        \/ new.room_id # None /\ stays[i].room_id = new.room_id
                     THEN stays'[i].status = "POST_STAY"
                     ELSE stays'[i] = stays[i]]_vars

\* a new Stay has just been created and a stay of another guest in its room was
\* closed by it
C3_Witness ==
    /\ Len(stays) >= 2
    /\ stays[Len(stays)].status = "IN_HOUSE"
    /\ \E i \in last.closed :
            /\ stays[i].room_id = stays[Len(stays)].room_id
            /\ stays[i].guest_id # stays[Len(stays)].guest_id
            /\ stays[i].status = "POST_STAY"

\* C4: for each (journey, stay) at most one JourneyEvent is PENDING or SENT.
C4_OneLiveEventPerJourneyStay ==
    \A e, f \in Ids(events) :
        (/\ e # f
         /\ events[e].journey_id = events[f].journey_id
         /\ events[e].stay_id = events[f].stay_id
         /\ events[e].status \in {"PENDING", "SENT"})
            => events[f].status = "CANCELLED"

(***************************************************************************)
(* Properties of the journey scheduler.                                     *)
(***************************************************************************)
Dispatching == {"dispatch", "check", "save", "send"}
TransportOf(e) == {t \in transport : t.event = e}

\* C5: in each run the staleness pass is complete before the dispatch pass starts:
\* it sets every PENDING event whose run_at lies 30 minutes or more before the
\* start of the run to CANCELLED, no such event is PENDING while the run
\* dispatches, and no run calls the provider for an event whose run_at lies 30
\* minutes or more before its start.
C5_StaleCancelledBeforeDispatch ==
    /\ [][\A w \in JourneyWorkers :
            (jw[w].pc = "idle" /\ jw'[w].pc = "dispatch") =>
                \A e \in Ids(events) :
                    (events[e].status = "PENDING" /\ events[e].run_at + STALE_MINUTES <= now)
                        => events'[e].status = "CANCELLED"]_vars
    /\ [](\A w \in JourneyWorkers :
            jw[w].pc \in Dispatching =>
                \A e \in Ids(events) :
                    events[e].run_at + STALE_MINUTES <= jw[w].now
                        => events[e].status # "PENDING")
    /\ [](\A t \in transport : events[t.event].run_at + STALE_MINUTES > t.run_now)

\* a run has passed its staleness pass, and an event that was stale at its start
\* (its stay still opted in, so that only the staleness pass can have cancelled
\* it without a call of the provider) is CANCELLED and was never sent
C5_Witness ==
    \E w \in JourneyWorkers, e \in Ids(events) :
        /\ jw[w].pc = "dispatch"
        /\ events[e].run_at + STALE_MINUTES <= jw[w].now
        /\ events[e].status = "CANCELLED"
        /\ stays[events[e].stay_id].whatsapp_opt_in
        /\ TransportOf(e) = {}

\* the run of worker w takes the step that decides on its current event
Decides(w) == jw[w].pc = "check" /\ jw'[w] # jw[w]
\* after the step the run is done with event e
MovedPast(w, e) == jw'[w].pc = "idle" \/ Current(jw'[w]) # e

\* C6 as stated: a due PENDING event whose stay is stored as not IN_HOUSE, or
\* whose stay has opted out, is CANCELLED by the dispatch step and not sent.
C6_StoredStatusCancelled ==
    [][\A w \in JourneyWorkers :
        Decides(w) =>
            LET e == Current(jw[w])
                stay == stays[events[e].stay_id]
            IN  (stay.status # "IN_HOUSE" \/ ~stay.whatsapp_opt_in)
                    => /\ events'[e].status = "CANCELLED"
                       /\ MovedPast(w, e)
                       /\ transport' = transport]_vars

\* C6: at dispatch a due PENDING event whose stay is not IN_HOUSE by its dates
\* (checkin_date <= now < checkout_date) is left as it is and not sent in that
\* cycle; one whose stay is IN_HOUSE by its dates and has opted out is set to
\* CANCELLED in that cycle and not sent.
C6_IneligibleAtDispatch ==
    [][\A w \in JourneyWorkers :
        Decides(w) =>
            LET e == Current(jw[w])
                stay == stays[events[e].stay_id]
            IN  /\ determine_state(stay, now) # "IN_HOUSE"
                    => /\ events'[e] = events[e]
                       /\ MovedPast(w, e)
                       /\ transport' = transport /\ messages' = messages
                /\ (determine_state(stay, now) = "IN_HOUSE" /\ ~stay.whatsapp_opt_in)
                    => /\ events'[e].status = "CANCELLED"
                       /\ MovedPast(w, e)
                       /\ transport' = transport /\ messages' = messages]_vars

\* a run is past an event of its list that it left PENDING because the stay is
\* not IN_HOUSE by its dates
C6_Witness ==
    \E w \in JourneyWorkers :
        /\ jw[w].pc = "check"
        /\ \E k \in 1..(jw[w].pos - 1) :
            /\ events[jw[w].queue[k]].status = "PENDING"
            /\ determine_state(stays[events[jw[w].queue[k]].stay_id], now) # "IN_HOUSE"
            /\ TransportOf(jw[w].queue[k]) = {}

\* C7: the provider is called at most once for each event.
C7_TransportAtMostOnce ==
    \A e \in Ids(events) : Cardinality(TransportOf(e)) <= 1

(***************************************************************************)
(* Properties of task creation.                                             *)
(***************************************************************************)
\* the tasks of (tenant, type, summary), and those of them no older than 60 s
SameTasks(hotel_id, task_type, summary) ==
    {i \in Ids(tasks) : /\ tasks[i].hotel_id = hotel_id
                        /\ tasks[i].type = task_type
                        /\ tasks[i].staff_summary = summary}
WithinWindow(hotel_id, task_type, summary) ==
    {i \in SameTasks(hotel_id, task_type, summary) : now - tasks[i].created_at <= DEDUP_SECONDS}

\* C8: a task request of a tenant that arrives within 60 seconds after a task of
\* the same type and summary was created returns that task, inserts no Task row
\* and calls no staff notification; a request that arrives when every such task
\* is more than 60 seconds old inserts a Task row.
C8_TaskDedupWindow ==
    [][\A h \in TaskHotels, ty \in TaskTypes, sm \in Summaries :
        create_task(h, ty, sm) =>
            IF WithinWindow(h, ty, sm) # {}
            THEN /\ tasks' = tasks
                 /\ notified' = notified
                 /\ ret' \in WithinWindow(h, ty, sm)
            ELSE /\ Len(tasks') = Len(tasks) + 1
                 /\ ret' = Len(tasks')
                 /\ notified' = Append(notified, ret')]_vars

\* a request was answered with a task created exactly 60 seconds before it, and a
\* second row of the same tenant, type and summary exists next to an older one
C8_Witness ==
    /\ ret # None
    /\ now - tasks[ret].created_at = DEDUP_SECONDS
    /\ Len(notified) = Len(tasks)
    /\ \E i, j \in Ids(tasks) :
        /\ i # j
        /\ j \in SameTasks(tasks[i].hotel_id, tasks[i].type, tasks[i].staff_summary)
        /\ tasks[j].created_at - tasks[i].created_at > DEDUP_SECONDS


(***************************************************************************)
(* Properties of room linking.                                              *)
(***************************************************************************)
\* a step of the worker, and the message it takes
ProcessStep == inbox # <<>> /\ inbox' = Tail(inbox)
Processed == messages[Head(inbox)]

\* the text is a room code that names a tenant with registered tokens and
\* carries no token or one that is not in the registry of that tenant
SpoofedLink(text) ==
    LET p == parse_room_link(text)
    IN  /\ p.is_qr_scan
        /\ p.extracted_hotel_id # <<>>
        /\ \E h \in Ids(Hotels) : /\ to_int(p.extracted_hotel_id) = h
                                  /\ Hotels[h].qr_tokens # {}
                                  /\ p.extracted_token \notin Hotels[h].qr_tokens

\* C9: while a tenant has registered tokens, a room code that names it without
\* a token of its registry changes nothing: the worker leaves conversations
\* and rooms as they are, and the shared endpoint neither stores nor enqueues
\* the message nor touches a conversation or room.
C9_SpoofedLinkRejected ==
    [][/\ (ProcessStep /\ SpoofedLink(Processed.text))
              => (conversations' = conversations /\ rooms' = rooms)
       /\ \A wa_id \in WaIds, text \in WhatsAppTexts, id \in MessageIds :
              (SpoofedLink(text) /\ receive_whatsapp_webhook_default(wa_id, text, id))
                  => UNCHANGED <<conversations, rooms, messages, inbox>>]_vars

\* the room of a linked conversation is another one, or none, after the step
LinkedRoomChanged(c) ==
    /\ conversations[c].room_id # None
    /\ conversations'[c].room_id # conversations[c].room_id

\* str.isdigit of a text of one word
DigitsOnly(text) == Len(text) = 1 /\ IsDigits(text[1])

\* the message is a room code for the handler of its channel
IsScan(message) ==
    IF message.raw_payload_json.line_user_id # NoUser
    THEN line_qr_scan(message.text)
    ELSE parse_room_link(message.text).is_qr_scan

ScanProcessed(c) ==
    ProcessStep /\ Processed.conversation_id = c /\ IsScan(Processed)

\* the worker found the session of the conversation over and closed it
ExpiredBy(c) ==
    /\ ProcessStep
    /\ Processed.conversation_id = c
    /\ conversations[c].stay_id = None
    /\ \/ conversations[c].last_qr_scan_at = None
       \/ now - conversations[c].last_qr_scan_at > SessionSeconds
    /\ conversations'[c].room_id = None
    /\ conversations'[c].status = "CLOSED"

\* a webhook pointed the conversation at the latest stay of its guest
RepointedBy(c) ==
    /\ ~ProcessStep
    /\ now' = now
    /\ stays' = stays
    /\ conversations'[c].stay_id # None
    /\ conversations'[c].stay_id # conversations[c].stay_id
    /\ conversations'[c].room_id = stays[conversations'[c].stay_id].room_id

\* C10 as stated: the room of a linked conversation changes only in the step
\* that processes a room code, so never through a message of digits only.
C10_RoomChangesOnlyByScan ==
    [][\A c \in Ids(conversations) : LinkedRoomChanged(c) => ScanProcessed(c)]_vars

\* C10: processing a message of digits only leaves the room of a linked
\* conversation as it is, or clears it when the session is over; the room of
\* a linked conversation changes only when a room code is processed, when the
\* worker closes an expired session, or when a webhook points the conversation
\* at the latest stay of the guest.
C10_TypedNumberNeverRelinks ==
    [][/\ \A c \in Ids(conversations) :
              LinkedRoomChanged(c) => ScanProcessed(c) \/ ExpiredBy(c) \/ RepointedBy(c)
       /\ (ProcessStep /\ DigitsOnly(Processed.text))
              => LET c == Processed.conversation_id
                 IN  conversations[c].room_id # None
                         => conversations'[c].room_id \in {conversations[c].room_id, None}]_vars

\* a typed number was processed in a linked conversation and went on to the
\* brain (room codes never do), and the conversation still has its room,
\* which is not the one of the number
C10_Witness ==
    \E c \in Ids(conversations), m \in Incoming(messages), k \in Ids(messages) :
        /\ messages[m].conversation_id = c
        /\ DigitsOnly(messages[m].text)
        /\ \A i \in 1..Len(inbox) : inbox[i] # m
        /\ \A j \in Incoming(messages) :
               (j # m /\ messages[j].conversation_id = c) => IsScan(messages[j])
        /\ k > m
        /\ messages[k].conversation_id = c
        /\ messages[k].direction = "OUTGOING"
        /\ messages[k].text = Reply
        /\ conversations[c].room_id # None
        /\ conversations[c].last_qr_scan_at # None
        /\ conversations[c].last_qr_scan_at <= messages[m].created_at
        /\ rooms[conversations[c].room_id].room_number # messages[m].text[1]


(***************************************************************************)
(* Properties of the session.                                               *)
(***************************************************************************)
\* the two conversations are of the same sender
SameSender(c, d) ==
    guests[conversations[c].guest_id].phone_hash = guests[conversations[d].guest_id].phone_hash

\* the system message that closed conversation d
ExpiryNotices(d) ==
    {k \in Ids(messages) : /\ messages[k].conversation_id = d
                           /\ messages[k].direction = "OUTGOING"
                           /\ messages[k].text = SessionExpired}

\* the session of d expired, d is closed without a room, and no room code of
\* the sender that arrived after the closing has been processed
Locked(c) ==
    \E d \in Ids(conversations) :
        /\ SameSender(c, d)
        /\ conversations[d].status = "CLOSED"
        /\ conversations[d].room_id = None
        /\ ExpiryNotices(d) # {}
        /\ ~\E m \in Incoming(messages) :
               /\ IsScan(messages[m])
               /\ SameSender(messages[m].conversation_id, d)
               /\ \A i \in 1..Len(inbox) : inbox[i] # m
               /\ \E k \in ExpiryNotices(d) : k < m

\* C11: a message that is not a room code, processed in a room-code-linked
\* conversation after the session window, closes the conversation and clears
\* its room, and the only message saved is the expiry notice; from then on,
\* until a room code of the sender is processed, processing a message of the
\* sender neither gives a conversation a room nor saves a reply.
C11_ExpiredSessionNeedsScan ==
    [][ProcessStep =>
          LET c == Processed.conversation_id
          IN  /\ (session_expired(conversations[c], now) /\ ~IsScan(Processed))
                     => /\ conversations'[c].status = "CLOSED"
                        /\ conversations'[c].room_id = None
                        /\ messages' = Append(messages, BotMessage(c, SessionExpired, now))
              /\ (Locked(c) /\ ~IsScan(Processed))
                     => /\ conversations'[c].room_id = conversations[c].room_id
                        /\ \/ messages' = messages
                           \/ messages'[Len(messages')].text # Reply]_vars


\* the tenants in which the sender has an OPEN WhatsApp conversation
OpenTenants(wa_id) ==
    {conversations[c].hotel_id :
        c \in {d \in Ids(conversations) :
                  /\ conversations[d].channel = "whatsapp"
                  /\ conversations[d].status = "OPEN"
                  /\ guests[conversations[d].guest_id].phone_hash \in phone_variants(wa_id)}}

\* C12: on the shared endpoint a message without a tenant id is stored under
\* the tenant of an OPEN conversation of the sender; when the sender has none,
\* no guest, conversation or message is created.
C12_StoredUnderOpenConversation ==
    [][\A wa_id \in WaIds, text \in WhatsAppTexts, id \in MessageIds :
           (/\ parse_qr_suffix(text).hotel_id = None
            /\ receive_whatsapp_webhook_default(wa_id, text, id))
               => IF OpenTenants(wa_id) = {}
                  THEN UNCHANGED <<guests, conversations, messages>>
                  ELSE messages' # messages
                           => conversations'[messages'[Len(messages')].conversation_id].hotel_id
                                  \in OpenTenants(wa_id)]_vars


\* the text is a room code that names the tenant h
NamesTenant(text, h) ==
    LET p == parse_room_link(text)
    IN  p.is_qr_scan /\ p.extracted_hotel_id # <<>> /\ to_int(p.extracted_hotel_id) = h

\* C13: the room a conversation is linked to is a room of the tenant of the
\* conversation, and processing a room code that names another tenant than
\* the one of its conversation creates no room and changes no conversation.
C13_RoomOfSameTenant ==
    /\ [](\A c \in Ids(conversations) :
              conversations[c].room_id # None
                  => rooms[conversations[c].room_id].hotel_id = conversations[c].hotel_id)
    /\ [][(/\ ProcessStep
           /\ \E h \in Ids(Hotels) : /\ h # conversations[Processed.conversation_id].hotel_id
                                     /\ NamesTenant(Processed.text, h))
              => (rooms' = rooms /\ conversations' = conversations)]_vars

(***************************************************************************)
(* Properties of identity resolution.                                       *)
(***************************************************************************)
\* C14: every written form of one phone number resolves within one tenant to the
\* same Guest row, whether the row was created by an inbound message or by PMS
\* reconciliation: the forms of one number never make a second Guest in a tenant.
C14_OneGuestPerNumber ==
    \A g, h \in Ids(guests) :
        (/\ guests[g].hotel_id = guests[h].hotel_id
         /\ \E p, q \in WrittenForms : /\ guests[g].phone_hash \in {hash_phone(p), canonical_phone(p)}
                                       /\ guests[h].phone_hash \in {hash_phone(q), canonical_phone(q)})
            => g = h

\* the IN_HOUSE stays, in any tenant, of guests whose hash is a variant of the phone
Matching(wa_id) ==
    {i \in Ids(stays) : /\ stays[i].status = "IN_HOUSE"
                        /\ guests[stays[i].guest_id].phone_hash \in phone_variants(wa_id)}

\* C15: with no tenant hint or the default tenant as hint, whenever some guest of
\* some tenant has a matching hash and an IN_HOUSE stay, resolve_identity creates no
\* Guest row and returns an IN_HOUSE stay with the latest check-in among the matching
\* ones, together with that stay's guest and tenant.
C15_GlobalDiscoveryLatestCheckin ==
    \A wa_id \in WrittenForms, hint \in {None, DEFAULT_HOTEL_ID} :
        Matching(wa_id) # {} =>
            LET context == resolve_identity(guests, stays, wa_id, hint)
            IN  /\ context.guests = guests
                /\ context.stay \in Matching(wa_id)
                /\ \A i \in Matching(wa_id) :
                       stays[i].checkin_date <= stays[context.stay].checkin_date
                /\ context.guest = stays[context.stay].guest_id
                /\ context.hotel = stays[context.stay].hotel_id
                /\ context.hotel = guests[context.guest].hotel_id

\* a message to the default tenant was stored in the conversation of tenant 2, whose
\* stay of the sender began after the one of tenant 1, both stays being IN_HOUSE
C15_Witness ==
    \E m \in Incoming(messages) :
        LET c == conversations[messages[m].conversation_id]
            M == Matching(messages[m].raw_payload_json.wa_id)
        IN  /\ c.stay_id \in M
            /\ c.hotel_id # DEFAULT_HOTEL_ID
            /\ \E i \in M : /\ stays[i].hotel_id = DEFAULT_HOTEL_ID
                            /\ stays[i].checkin_date < stays[c.stay_id].checkin_date

\* the workers that hold a guest for the identifier in the tenant: a webhook
\* handler past resolve_identity, and the guest rows a check-in of the identifier
\* resolved to
HoldsGuest(w, hotel_id, phone) ==
    /\ sw[w].pc \in {"conversation", "conversation_insert", "store"}
    /\ sw[w].hotel_id = hotel_id
    /\ sw[w].wa_id = phone

\* C16: when a webhook handler and another handler or a PMS check-in resolve the
\* same identifier for the same tenant on two workers, both continue with one and
\* the same Guest row: two webhook handlers hold the same guest, and a webhook
\* handler holds the guest of every stay the PMS has checked in under the identifier.
C16_ConcurrentFirstContactOneGuest ==
    \A hotel_id \in Ids(Hotels), phone \in WrittenForms :
        \A w \in SyncWorkers :
            HoldsGuest(w, hotel_id, phone) =>
                /\ sw[w].guest \in Ids(guests)
                /\ \A v \in SyncWorkers :
                       HoldsGuest(v, hotel_id, phone) => sw[v].guest = sw[w].guest
                /\ \A g \in Ids(guests) :
                       (guests[g].hotel_id = hotel_id /\ guests[g].phone_plain = phone)
                           => g = sw[w].guest

\* C17: in every reachable state there is at most one OPEN conversation per
\* (tenant, guest, channel), also when two webhook handlers for the same new guest
\* run at the same time.
C17_OneOpenConversation ==
    \A c, d \in Ids(conversations) :
        (/\ conversations[c].status = "OPEN"
         /\ conversations[d].status = "OPEN"
         /\ conversations[c].hotel_id = conversations[d].hotel_id
         /\ conversations[c].guest_id = conversations[d].guest_id
         /\ conversations[c].channel = conversations[d].channel) => c = d

(***************************************************************************)
(* Properties of the check-out.                                             *)
(***************************************************************************)
\* the IN_HOUSE stays of a reservation in a tenant
InHouseOf(hotel_id, reservation_id) ==
    {i \in InHouseStays : /\ stays[i].hotel_id = hotel_id
                          /\ stays[i].pms_reservation_id = reservation_id}

\* a PENDING or SENT event of the tenant's active feedback journey for the stay
FeedbackScheduled(es, hotel_id, stay_id) ==
    \E e \in Ids(es) : /\ es[e].stay_id = stay_id
                       /\ es[e].status \in {"PENDING", "SENT"}
                       /\ journeys[es[e].journey_id].hotel_id = hotel_id
                       /\ journeys[es[e].journey_id].name = "AFTER_CHECKOUT_FEEDBACK"

HasFeedbackJourney(hotel_id) ==
    \E j \in Ids(journeys) : /\ journeys[j].hotel_id = hotel_id
                             /\ journeys[j].name = "AFTER_CHECKOUT_FEEDBACK"
                             /\ journeys[j].is_active

\* C18: a checked_out reservation with no IN_HOUSE stay of (tenant, reservation id)
\* changes nothing; otherwise it sets such a stay to POST_STAY and, when the tenant
\* has an active feedback journey and the stay has no PENDING or SENT feedback
\* event, schedules exactly one; and handling the same payload once more changes
\* nothing further.
C18_CheckoutOnceOrTwice ==
    [][\A hotel_id \in PmsHotels, r \in CheckedOut :
          SyncCheckout(hotel_id, r) =>
              LET S == InHouseOf(hotel_id, r.reservation_id)
                  again == handle_checkout(stays', events', hotel_id, r)
              IN  /\ S = {} => stays' = stays /\ events' = events
                  /\ S # {} =>
                       \E i \in S :
                           /\ stays' = [stays EXCEPT ![i].status = "POST_STAY"]
                           /\ FeedbackScheduled(events', hotel_id, i)
                                  = HasFeedbackJourney(hotel_id)
                           /\ Len(events') =
                                  IF HasFeedbackJourney(hotel_id)
                                     /\ ~FeedbackScheduled(events, hotel_id, i)
                                  THEN Len(events) + 1 ELSE Len(events)
                           /\ SubSeq(events', 1, Len(events)) = events
                  /\ again.stays = stays'
                  /\ again.events = events']_vars

(***************************************************************************)
(* Properties of the LINE link.                                             *)
(***************************************************************************)
\* the pending-link entry of the channel id has not expired
PendingAlive(u) == redis[u].value # None /\ now < redis[u].expires_at

OthersUntouched(table, table_, hotel_id) ==
    /\ Len(table_) >= Len(table)
    /\ \A i \in Ids(table) : table[i].hotel_id # hotel_id => table_[i] = table[i]
    /\ \A i \in Ids(table_) \ Ids(table) : table_[i].hotel_id = hotel_id

\* how often the hotel was handed to sync_hotel
TimesSynced(h) == Cardinality({k \in 1..Len(sw.synced) : sw.synced[k] = h})

\* C20: when the sweep is over every active tenant with a PMS configured was
\* reconciled exactly once and no other tenant was, whatever failed on the way; a
\* step of one tenant's reconciliation, failed or not, leaves the rows of the other
\* tenants as they were; and the sweep comes to its end.
C20_SweepReachesEveryTenant ==
    /\ [](sw.pc = "done" =>
              \A h \in Ids(Hotels) :
                  TimesSynced(h) = IF Hotels[h].is_active /\ Hotels[h].pms_type # ""
                                   THEN 1 ELSE 0)
    /\ [][sw.pc = "reservations" =>
              /\ OthersUntouched(guests, guests', sw.hotel)
              /\ OthersUntouched(rooms, rooms', sw.hotel)
              /\ OthersUntouched(stays, stays', sw.hotel)
              /\ OthersUntouched(events, events', sw.hotel)]_vars
    /\ [][sw.pc # "reservations" =>
              UNCHANGED <<guests, rooms, stays, events>>]_vars
    /\ <>(sw.pc = "done")

\* the sweep is over, the reconciliation of the first tenant failed and the tenant
\* after it has its guest checked in
C20_Witness ==
    /\ sw.pc = "done"
    /\ sw.failed_syncs > 0
    /\ Len(sw.synced) > 1
    /\ \A i \in Ids(stays) : stays[i].hotel_id # sw.synced[1]
    /\ \E i \in InHouseStays : stays[i].hotel_id = sw.synced[2]

Deliveries == {m \in Incoming(messages) : /\ messages[m].raw_payload_json.message_id # ""
                                          /\ messages[m].raw_payload_json.wa_id # <<>>}

\* C22: a WhatsApp webhook delivered again (same provider message id, same sender,
\* same text) is stored once and enqueued once, however long after the first
\* delivery it arrives: no two Message rows hold the same delivery.
C22_RedeliveryStoredOnce ==
    \A m, n \in Deliveries :
        (/\ messages[m].raw_payload_json.message_id = messages[n].raw_payload_json.message_id
         /\ messages[m].raw_payload_json.wa_id = messages[n].raw_payload_json.wa_id
         /\ messages[m].text = messages[n].text)
        => m = n

(***************************************************************************)
(* Properties of the in_house branch.                                       *)
(***************************************************************************)
\* C23: after any sequence of reconciliation cycles there is at most one Stay per
\* (tenant, external reservation id), also when the phone number reported for
\* the reservation differs between cycles.
C23_OneStayPerReservation ==
    \A s, t \in Ids(stays) :
        (/\ stays[s].hotel_id = stays[t].hotel_id
         /\ stays[s].pms_reservation_id = stays[t].pms_reservation_id)
        => s = t

\* the PENDING and SENT events of a journey for a stay
LiveEvents(es, stay, journey) ==
    {e \in Ids(es) : /\ es[e].stay_id = stay
                     /\ es[e].journey_id = journey
                     /\ es[e].status \in {"PENDING", "SENT"}}

\* the stay of a reservation of a guest, None when there is none
StayOf(ss, hotel_id, r) ==
    First({s \in Ids(ss) : /\ ss[s].hotel_id = hotel_id
                           /\ ss[s].pms_reservation_id = r.reservation_id
                           /\ guests[ss[s].guest_id].phone_hash = hash_phone(r.guest_phone)})

\* C24: a reconciliation of an in_house reservation of a tenant with an active
\* welcome journey, at which the stay of the reservation has no PENDING or SENT
\* welcome event (the stay is new, or it is there from an earlier cycle), leaves
\* the stay with exactly one such event, PENDING, newly stored, with run_at the
\* processing time plus the delay of the journey.
C24_WelcomeScheduledAtNow ==
    [][\A h \in PmsHotels, r \in Arrivals :
         LET journey == ActiveJourney(h, "AFTER_CHECKIN_WELCOME")
             before == StayOf(stays, h, r)
             stay == StayOf(stays', h, r)
         IN  (/\ SyncCheckin(h, r)
              /\ journey # None
              /\ (before = None \/ LiveEvents(events, before, journey) = {}))
             => /\ stay # None
                /\ Len(events') = Len(events) + 1
                /\ LiveEvents(events', stay, journey) = {Len(events')}
                /\ events'[Len(events')].status = "PENDING"
                /\ events'[Len(events')].run_at = now + journeys[journey].delay_minutes]_vars

(***************************************************************************)
(* Properties of the dispatch pass.                                         *)
(***************************************************************************)
\* C25: when the provider is called for an event, every event the worker sent
\* with success before (in this run or an earlier one, the worker not having died
\* between that send and its commit) is stored as SENT, and the event called for
\* is not SENT: a worker that dies later in the batch and is started again sends
\* no committed event a second time.
C25_SentCommittedBeforeNextSend ==
    [][transport' # transport =>
          /\ \A e \in sw.sent : events[e].status = "SENT"
          /\ \A t \in transport' \ transport : events[t.event].status = "PENDING"]_vars

\* the worker died after an event was sent and committed, was started again and
\* called the provider for another event in a later run
C25_Witness ==
    /\ sw.crashes > 0
    /\ \E t, u \in transport : /\ t.event # u.event
                               /\ events[t.event].status = "SENT"
                               /\ t.run_now < u.run_now
                               /\ events[u.event].run_at <= t.run_now

\* C26: the status of a JourneyEvent changes only from PENDING, to SENT or to
\* CANCELLED; SENT and CANCELLED are terminal, and the provider is called for no
\* event that is CANCELLED.
C26_StatusOnlyLeavesPending ==
    [][/\ \A e \in Ids(events) :
              events'[e].status # events[e].status =>
                  /\ events[e].status = "PENDING"
                  /\ events'[e].status \in {"SENT", "CANCELLED"}
       /\ \A t \in transport' \ transport : events[t.event].status # "CANCELLED"]_vars

(***************************************************************************)
(* Properties of the contact data.                                          *)
(***************************************************************************)
\* C27: an inbound message leaves the stored phone of every guest that has one as
\* it is (identity resolution writes it for a guest without one only); an in_house
\* reconciliation leaves the guest of the reservation with the phone as the PMS
\* reports it, whatever was stored before.
C27_PhoneWrittenOnceByChannel ==
    [][/\ \A h \in Ids(Hotels), wa_id \in WrittenForms, id \in MessageIds :
              receive_whatsapp_webhook(h, wa_id, Typed, id) =>
                  \A g \in Ids(guests) :
                      guests[g].phone_plain # <<>> =>
                          guests'[g].phone_plain = guests[g].phone_plain
       /\ \A h \in Ids(Hotels) : \A r \in PiiArrivals(h) :
              SyncCheckin(h, r) =>
                  \A g \in Ids(guests') :
                      (/\ guests'[g].hotel_id = h
                       /\ guests'[g].phone_hash = hash_phone(r.guest_phone))
                      => guests'[g].phone_plain = r.guest_phone]_vars

\* a guest whose phone was stored by the channel and then overwritten by the PMS
\* with another form, and a guest whose phone was stored by the PMS and left alone
\* by a message from a number with another canonical form
C27_Witness ==
    /\ \E g \in Ids(guests) : /\ guests[g].phone_plain = <<"+", "4", "0", "7">>
                              /\ \E c \in Ids(conversations) : conversations[c].guest_id = g
                              /\ \E i \in Ids(stays) : stays[i].guest_id = g
    /\ \E g \in Ids(guests) : /\ guests[g].phone_plain = <<"0", "7">>
                              /\ \E m \in Incoming(messages) :
                                     /\ conversations[messages[m].conversation_id].guest_id = g
                                     /\ messages[m].raw_payload_json.wa_id # <<"0", "7">>

(***************************************************************************)
(* Properties of the safety sweep.                                          *)
(***************************************************************************)
\* C28: a safety sweep sets the status of every stay, of whichever tenant, that
\* is IN_HOUSE with a checkout date before the sweep time to POST_STAY, and
\* changes no other field, no other stay and no other table.
C28_SweepClosesExpiredOnly ==
    [][run_stay_cleanup_for_all_hotels =>
          /\ Len(stays') = Len(stays)
          /\ \A i \in Ids(stays) :
                 stays'[i] = IF stays[i].status = "IN_HOUSE" /\ stays[i].checkout_date < now
                             THEN [stays[i] EXCEPT !.status = "POST_STAY"]
                             ELSE stays[i]
          /\ UNCHANGED <<now, guests, rooms, journeys, events, conversations, messages,
                         transport, tasks, notified, inbox>>]_vars

\* stays of two tenants were closed by the sweep while a stay not yet past its
\* checkout was left in house
C28_Witness ==
    /\ \E i, j \in Ids(stays) : /\ stays[i].hotel_id # stays[j].hotel_id
                                /\ stays[i].status = "POST_STAY"
                                /\ stays[i].checkout_date < now
                                /\ stays[j].status = "IN_HOUSE"
                                /\ stays[j].checkout_date >= now
    /\ Len(stays) = 2

(***************************************************************************)
(* Properties of the token registry.                                        *)
(***************************************************************************)
\* the entries of a registry that are no longer in the registry after the step
Removed(old, new) == {i \in Ids(old) : \A j \in Ids(new) : new[j] # old[i]}

\* C29: the registry of a tenant never holds more than 500 entries; entries leave
\* it only when it is full, and then none that leaves is newer than one that
\* stays; a request that completes leaves its new token in the registry, and the
\* new token differs from every token retained.
C29_RegistryBoundedOldestFirst ==
    [][\A h \in Ids(Hotels) :
         LET old == sw.qr_tokens[h]
             new == sw'.qr_tokens[h]
         IN  /\ Len(new) <= QR_TOKEN_LIMIT
             /\ Removed(old, new) # {} =>
                    /\ Len(old) >= QR_TOKEN_LIMIT
                    /\ \A i \in Removed(old, new) : \A j \in Ids(old) \ Removed(old, new) :
                           old[i].created_at <= old[j].created_at
             /\ new # old =>
                    /\ new # <<>>
                    /\ \A j \in 1..(Len(new) - 1) : new[j].token # new[Len(new)].token
                    /\ new[Len(new)].created_at = now]_vars

(***************************************************************************)
(* Properties of the scheduler that keeps running.                          *)
(***************************************************************************)
\* C30: with the scheduler running for ever and the clock moving on, every
\* JourneyEvent that is PENDING is SENT or CANCELLED in the end, whatever the
\* stay, the guest and the provider do; and once a run has started 30 minutes or
\* more after the run_at of an event, the event is not PENDING.
C30_NoEventPendingForever ==
    /\ \A e \in 1..MaxStays :
           (e \in Ids(events) /\ events[e].status = "PENDING")
               ~> (e \in Ids(events) /\ events[e].status \in {"SENT", "CANCELLED"})
    /\ [](\A e \in Ids(events) :
              (jw[1].pc # "idle" /\ events[e].run_at + STALE_MINUTES <= jw[1].now)
                  => events[e].status \in {"SENT", "CANCELLED"})

\* an event whose stay was past its checkout whenever the event was due stayed
\* PENDING through the runs until one started 30 minutes after its run_at: it is
\* CANCELLED and the provider was never called for it
C30_Witness ==
    \E e \in Ids(events) :
        /\ events[e].status = "CANCELLED"
        /\ stays[events[e].stay_id].checkout_date <= events[e].run_at
        /\ stays[events[e].stay_id].whatsapp_opt_in
        /\ TransportOf(e) = {}
        /\ now >= events[e].run_at + STALE_MINUTES
        /\ \E m \in Ids(events) : m # e
====
